---- MODULE Spec2Model ----
(***************************************************************************)
(* Model of markdown-viewer: the three route handlers that sit between the *)
(* browser and the Git provider.                                           *)
(*                                                                         *)
(*   POST /api/pr         src/app/api/pr/route.ts         (Spec)           *)
(*   GET  /api/repo/tree  src/app/api/repo/tree/route.ts  (SpecTree)       *)
(*   GET  /api/repo/file  src/unnamed/part_000            (SpecFile)       *)
(*                                                                         *)
(* A JavaScript string is a sequence of one-character strings, so that     *)
(* replace, endsWith, includes, sort, base64 and utf-8 are computed, not   *)
(* assumed.  A JSON body is a record whose domain is the set of keys the   *)
(* handler wrote.  Every await of a handler is one step of the model, so   *)
(* that other requests and other writers interleave exactly there.         *)
(***************************************************************************)
EXTENDS Integers, Sequences, FiniteSets, TLC

VARIABLES
  \* ---- the Git provider (one repository) ----
  refs,        \* branch name -> head commit; a commit is the sequence of the
               \* trees of its history, a tree maps each file path to its bytes
  pulls,       \* sequence of pull requests [head, base, title, body]
  now,         \* wall clock, in ticks of TickMs ms
  pushes,      \* number of commits other writers have pushed
  \* ---- POST /api/pr, one entry per request ----
  pc,          \* position of the handler (which await it is parked on)
  req,         \* the parsed JSON body
  resolvedBaseBranch, currentFile, baseCommitSha, newBranchName, \* locals
  resp,        \* the NextResponse returned: [status, body]
  calls,       \* provider calls issued by the request, in order
  hist,        \* what the provider saw and did for the request (observation only)
  thrown,      \* the error the last step threw, and in which request (observation)
  \* ---- GET /api/repo/tree ----
  listing,     \* the provider's git data: [heads: branch -> commit sha,
               \*                            trees: commit sha -> tree entries]
  tpc, treq, tbranch, tsha, tresp, tcalls,
  \* ---- GET /api/repo/file ----
  fpc, freq, fresp, fcalls,
  fversion,    \* which of the two versions of the handler in src/ is running
  \* ---- the browser: the page, the editor component, their requests ----
  page,        \* the React state of Home
  editor,      \* the React state of MarkdownEditor, and what it last rendered
  sent,        \* every request the browser has issued, in order
  inflight     \* the requests not yet answered (indices of sent)

provider == <<refs, pulls, now, pushes>>
prVars   == <<pc, req, resolvedBaseBranch, currentFile, baseCommitSha,
              newBranchName, resp, calls, hist, thrown>>
treeVars == <<listing, tpc, treq, tbranch, tsha, tresp, tcalls>>
fileVars == <<fpc, freq, fresp, fcalls, fversion>>
clientVars == <<page, editor, sent, inflight>>
vars     == <<provider, prVars, treeVars, fileVars, clientVars>>

(***************************************************************************)
(* Strings                                                                 *)
(***************************************************************************)

\* UTF-16 code unit of a character (the characters the model uses).
CodeUnit(c) ==
  CASE c = "\n" -> 10 [] c = "*" -> 42
    [] c = " " -> 32  [] c = "#" -> 35  [] c = "-" -> 45  [] c = "." -> 46
    [] c = "/" -> 47  [] c = "0" -> 48  [] c = "1" -> 49  [] c = "2" -> 50
    [] c = "3" -> 51  [] c = "4" -> 52  [] c = "5" -> 53  [] c = "6" -> 54
    [] c = "7" -> 55  [] c = "8" -> 56  [] c = "9" -> 57  [] c = ":" -> 58
    [] c = "A" -> 65  [] c = "B" -> 66  [] c = "D" -> 68  [] c = "G" -> 71
    [] c = "M" -> 77  [] c = "S" -> 83  [] c = "T" -> 84  [] c = "Z" -> 90
    [] c = "_" -> 95
    [] c = "a" -> 97  [] c = "b" -> 98  [] c = "c" -> 99  [] c = "d" -> 100
    [] c = "e" -> 101 [] c = "g" -> 103 [] c = "h" -> 104 [] c = "i" -> 105
    [] c = "k" -> 107 [] c = "l" -> 108 [] c = "m" -> 109 [] c = "n" -> 110
    [] c = "o" -> 111 [] c = "r" -> 114 [] c = "s" -> 115 [] c = "t" -> 116
    [] c = "v" -> 118 [] c = "w" -> 119 [] c = "x" -> 120 [] c = "z" -> 122
    [] c = "é" -> 233 [] c = "�" -> 65533

Chars ==
  {"\n", " ", "#", "*", "-", ".", "/", "0", "1", "2", "3", "4", "5", "6", "7", "8", "9",
   ":", "A", "B", "D", "G", "M", "S", "T", "Z", "_", "a", "b", "c", "d", "e",
   "g", "h", "i", "k", "l", "m", "n", "o", "r", "s", "t", "v", "w", "x", "z", "é",
   "�"}

\* String.fromCharCode, on the code units of Chars.
FromCharCode(n) == CHOOSE c \in Chars : CodeUnit(c) = n

\* s.endsWith(suffix)
EndsWith(s, suffix) ==
  /\ Len(suffix) <= Len(s)
  /\ SubSeq(s, Len(s) - Len(suffix) + 1, Len(s)) = suffix

\* s.includes(needle)
Includes(s, needle) ==
  \E i \in 1..(Len(s) - Len(needle) + 1) :
    SubSeq(s, i, i + Len(needle) - 1) = needle

\* a < b as JavaScript compares strings: by code units, a proper prefix first.
RECURSIVE StrLess(_, _)
StrLess(a, b) ==
  IF b = <<>> THEN FALSE
  ELSE IF a = <<>> THEN TRUE
  ELSE IF CodeUnit(Head(a)) # CodeUnit(Head(b))
       THEN CodeUnit(Head(a)) < CodeUnit(Head(b))
       ELSE StrLess(Tail(a), Tail(b))

(***************************************************************************)
(* Buffer: utf-8 and base64                                                *)
(***************************************************************************)

\* Buffer.from(s, 'utf-8'): the bytes of a string (code points below 0x800).
RECURSIVE Utf8Encode(_)
Utf8Encode(s) ==
  IF s = <<>> THEN <<>>
  ELSE LET u == CodeUnit(Head(s)) IN
       IF u < 128 THEN <<u>> \o Utf8Encode(Tail(s))
       ELSE IF u < 2048
            THEN <<192 + (u \div 64), 128 + (u % 64)>> \o Utf8Encode(Tail(s))
            ELSE <<224 + (u \div 4096), 128 + ((u \div 64) % 64), 128 + (u % 64)>>
                 \o Utf8Encode(Tail(s))

\* buf.toString('utf-8'): an ill-formed sequence decodes to U+FFFD.
RECURSIVE Utf8Decode(_)
Utf8Decode(b) ==
  IF b = <<>> THEN <<>>
  ELSE LET x == Head(b) IN
       IF x < 128 THEN <<FromCharCode(x)>> \o Utf8Decode(Tail(b))
       ELSE IF /\ x >= 194 /\ x <= 223 /\ Len(b) >= 2
               /\ b[2] >= 128 /\ b[2] <= 191
            THEN <<FromCharCode((x - 192) * 64 + (b[2] - 128))>>
                 \o Utf8Decode(Tail(Tail(b)))
            ELSE <<"�">> \o Utf8Decode(Tail(b))

\* The pad character '=' among the 6-bit digits 0..63.
Pad == 64

\* buf.toString('base64'): 6-bit digits, padded to a multiple of four.
RECURSIVE Base64Encode(_)
Base64Encode(b) ==
  IF b = <<>> THEN <<>>
  ELSE IF Len(b) = 1
       THEN <<b[1] \div 4, (b[1] % 4) * 16, Pad, Pad>>
  ELSE IF Len(b) = 2
       THEN <<b[1] \div 4, (b[1] % 4) * 16 + (b[2] \div 16), (b[2] % 16) * 4, Pad>>
  ELSE <<b[1] \div 4, (b[1] % 4) * 16 + (b[2] \div 16),
         (b[2] % 16) * 4 + (b[3] \div 64), b[3] % 64>>
       \o Base64Encode(SubSeq(b, 4, Len(b)))

\* Buffer.from(s, 'base64'): decoding stops at the first pad.
RECURSIVE Base64Decode(_)
Base64Decode(d) ==
  IF Len(d) < 2 \/ d[1] = Pad \/ d[2] = Pad THEN <<>>
  ELSE LET b1 == d[1] * 4 + (d[2] \div 16) IN
       IF Len(d) < 3 \/ d[3] = Pad THEN <<b1>>
       ELSE LET b2 == (d[2] % 16) * 16 + (d[3] \div 4) IN
            IF Len(d) < 4 \/ d[4] = Pad THEN <<b1, b2>>
            ELSE <<b1, b2, (d[3] % 4) * 64 + d[4]>>
                 \o Base64Decode(SubSeq(d, 5, Len(d)))

(***************************************************************************)
(* The Git provider: data                                                  *)
(***************************************************************************)

\* Content hash of a blob, as hex digits.  The provider's hash is modelled by
\* a positional digest, which is injective on the blobs of the model.
RECURSIVE Digest(_)
Digest(b) == IF b = <<>> THEN 1 ELSE (Head(b) + 1 + 7 * Digest(Tail(b))) % 65536

HexDigits == <<"0", "1", "2", "3", "4", "5", "6", "7", "8", "9",
               "a", "b", "c", "d", "e", "f">>

BlobSha(b) ==
  LET n == Digest(b) IN
  <<HexDigits[(n \div 4096) + 1], HexDigits[((n \div 256) % 16) + 1],
    HexDigits[((n \div 16) % 16) + 1], HexDigits[(n % 16) + 1]>>

Main == <<"m", "a", "i", "n">>
Dev  == <<"d", "e", "v">>

\* The repository's default branch, as repos.get reports it.
DefaultBranch == Main
BaseBranchNames == {Main, Dev}

PathAB  == <<"a", "/", "b", ".", "m", "d">>
PathA_B == <<"a", "-", "b", ".", "m", "d">>
PathDir == <<"a">>

\* The files other writers and publishes change, and a directory.
FilePaths == {PathAB, PathA_B}

\* File contents found upstream, as bytes.
Upstream1 == Utf8Encode(<<"#", " ", "a">>)
Upstream2 == Utf8Encode(<<"é">>)
UpstreamBlobs == {Upstream1, Upstream2}

\* The Markdown an editor sends.
Edited == <<"h", "i", " ", "é">>

\* What repos.getContent answers for a path at a ref that exists.
ContentData(tree, path) ==
  IF path \in DOMAIN tree
  THEN [isArray |-> FALSE, type |-> "file", sha |-> BlobSha(tree[path]),
        content |-> Base64Encode(tree[path]), path |-> path]
  ELSE [isArray |-> TRUE]

NoFile == [isArray |-> FALSE, type |-> "none"]

(***************************************************************************)
(* The Git provider: failures (octokit's RequestError, or any other throw) *)
(***************************************************************************)

RateLimitWords == <<"r", "a", "t", "e", " ", "l", "i", "m", "i", "t">>

ErrorMessages ==
  { <<"A", "P", "I", " ">> \o RateLimitWords \o <<" ", "e", "x", "c">>,
    <<"R", "a", "t", "e", " ", "L", "i", "m", "i", "t">> }

RemainingHeaders == { <<"0">>, <<"5", "9">> }

ErrorStatuses == {401, 403, 404, 409, 422, 500}

\* A thrown error: status, the x-ratelimit-remaining response header and the
\* message are each present or not.
ProviderErrors ==
  LET withStatus == {[status |-> s] : s \in ErrorStatuses} \cup {[thrown |-> TRUE]}
      withHeader == withStatus \cup
        UNION {{[status |-> s, remaining |-> h] : s \in ErrorStatuses}
               : h \in RemainingHeaders}
  IN  withHeader \cup
      UNION {{e @@ [message |-> m] : e \in withHeader} : m \in ErrorMessages}

ErrStatus(e) == IF "status" \in DOMAIN e THEN e.status ELSE 0

\* error.response?.headers?.['x-ratelimit-remaining'] === '0' ||
\* error.message?.includes('rate limit')
RateLimitSignal(e) ==
  \/ ("remaining" \in DOMAIN e /\ e.remaining = <<"0">>)
  \/ ("message" \in DOMAIN e /\ Includes(e.message, RateLimitWords))

(***************************************************************************)
(* POST /api/pr: pure parts                                                *)
(***************************************************************************)

\* s.replace(/\//g, '-')
RECURSIVE ReplaceSlashes(_)
ReplaceSlashes(s) ==
  IF s = <<>> THEN <<>>
  ELSE <<IF Head(s) = "/" THEN "-" ELSE Head(s)>> \o ReplaceSlashes(Tail(s))

\* [a-zA-Z0-9\-]
IsSlugChar(c) ==
  LET u == CodeUnit(c) IN
  \/ (u >= 97 /\ u <= 122) \/ (u >= 65 /\ u <= 90) \/ (u >= 48 /\ u <= 57)
  \/ c = "-"

\* s.replace(/[^a-zA-Z0-9\-]/g, '')
RECURSIVE KeepSlugChars(_)
KeepSlugChars(s) ==
  IF s = <<>> THEN <<>>
  ELSE (IF IsSlugChar(Head(s)) THEN <<Head(s)>> ELSE <<>>) \o KeepSlugChars(Tail(s))

\* s.toLowerCase(), on the characters that pass KeepSlugChars
RECURSIVE ToLowerCase(_)
ToLowerCase(s) ==
  IF s = <<>> THEN <<>>
  ELSE LET u == CodeUnit(Head(s)) IN
       <<IF u >= 65 /\ u <= 90 THEN FromCharCode(u + 32) ELSE Head(s)>>
       \o ToLowerCase(Tail(s))

SlugMax == 40

\* s.substring(0, n)
Substring0(s, n) == SubSeq(s, 1, IF Len(s) < n THEN Len(s) ELSE n)

SlugUntruncated(path) == ToLowerCase(KeepSlugChars(ReplaceSlashes(path)))
Slug(path) == Substring0(ToLowerCase(KeepSlugChars(ReplaceSlashes(path))), SlugMax)

\* The clock ticks twice a second, so that two instants can share a second.
TickMs == 500

\* The instant the clock starts at (a UTC time of day on a fixed date), chosen
\* one second before the minute turns.
ClockStart == [date |-> <<"2", "0", "2", "6", "-", "1", "0", "-", "2", "9">>,
               h |-> 17, m |-> 23, s |-> 59]

Digit(n) == FromCharCode(48 + n)
TwoDigits(n) == <<Digit((n \div 10) % 10), Digit(n % 10)>>
ThreeDigits(n) == <<Digit((n \div 100) % 10), Digit((n \div 10) % 10), Digit(n % 10)>>

\* new Date().toISOString() at tick t: YYYY-MM-DDTHH:mm:ss.sssZ
ToISOString(t) ==
  LET secs == ClockStart.h * 3600 + ClockStart.m * 60 + ClockStart.s
                + ((t * TickMs) \div 1000)
      ms   == (t * TickMs) % 1000
  IN  ClockStart.date \o <<"T">> \o TwoDigits((secs \div 3600) % 24) \o <<":">>
      \o TwoDigits((secs \div 60) % 60) \o <<":">> \o TwoDigits(secs % 60)
      \o <<".">> \o ThreeDigits(ms) \o <<"Z">>

\* s.replace(/[:\-]/g, '')
RECURSIVE DropColonsAndDashes(_)
DropColonsAndDashes(s) ==
  IF s = <<>> THEN <<>>
  ELSE (IF Head(s) \in {":", "-"} THEN <<>> ELSE <<Head(s)>>)
       \o DropColonsAndDashes(Tail(s))

\* s.replace(/\..+/, ''): from the first '.' that a character follows, to the end
RECURSIVE DropFraction(_)
DropFraction(s) ==
  IF s = <<>> THEN <<>>
  ELSE IF Head(s) = "." /\ Len(s) >= 2 THEN <<>>
  ELSE <<Head(s)>> \o DropFraction(Tail(s))

\* s.replace('T', '-'): the first occurrence only
RECURSIVE ReplaceFirstT(_)
ReplaceFirstT(s) ==
  IF s = <<>> THEN <<>>
  ELSE IF Head(s) = "T" THEN <<"-">> \o Tail(s)
  ELSE <<Head(s)>> \o ReplaceFirstT(Tail(s))

Timestamp(t) == ReplaceFirstT(DropFraction(DropColonsAndDashes(ToISOString(t))))

createBranchSlug(path, t) ==
  <<"d", "o", "c", "s", "/">> \o Slug(path) \o <<"-">> \o Timestamp(t)

Json(status, body) == [status |-> status, body |-> body]

\* The catch block: the response for a thrown error.
CatchResponsePRNoRateLimit(e) ==
  IF ErrStatus(e) \in {401, 403, 404, 409}
    THEN Json(ErrStatus(e), [error |-> "Unauthorized or insufficient scope"])
    ELSE Json(500, [error |-> "Failed to create pull request"])
CatchResponsePR(e) ==
  IF ErrStatus(e) = 401
    THEN Json(401, [error |-> "Unauthorized or insufficient scope"])
  ELSE IF ErrStatus(e) = 403
    THEN IF RateLimitSignal(e)
         THEN Json(429, [error |-> "Rate limit exceeded"])
         ELSE Json(403, [error |-> "Unauthorized or insufficient scope"])
  ELSE IF ErrStatus(e) = 404
    THEN Json(404, [error |-> "Repo or path not found"])
  ELSE IF ErrStatus(e) = 409
    THEN Json(409, [error |-> "File changed upstream"])
  ELSE Json(500, [error |-> "Failed to create pull request"])

(***************************************************************************)
(* POST /api/pr: requests                                                  *)
(***************************************************************************)

Reqs == {1, 2}

Owner == <<"o">>
Repo  == <<"r">>

\* A well-formed body; baseBranch, prTitle and prBody are optional ("" = absent).
Body(path, baseBranch, baseSha) ==
  [owner |-> Owner, repo |-> Repo, path |-> path, baseBranch |-> baseBranch,
   baseSha |-> baseSha, markdown |-> Edited, prTitle |-> <<>>, prBody |-> <<>>]

ValidBodies ==
  { Body(PathAB, <<>>, BlobSha(Upstream1)),
    Body(PathAB, <<>>, BlobSha(Upstream2)),
    Body(PathAB, Dev, BlobSha(Upstream2)),
    Body(PathA_B, <<>>, BlobSha(Upstream1)),
    Body(PathDir, <<>>, BlobSha(Upstream1)) }

\* Bodies with one required field missing.
InvalidBodies ==
  LET b == Body(PathAB, <<>>, BlobSha(Upstream1)) IN
  {[b EXCEPT !.owner = <<>>], [b EXCEPT !.repo = <<>>], [b EXCEPT !.path = <<>>],
   [b EXCEPT !.baseSha = <<>>], [b EXCEPT !.markdown = <<>>]}

PostBodies == ValidBodies \cup InvalidBodies

\* Bodies request.json() rejects (not JSON, empty) or line 49 cannot
\* destructure (the JSON null): no field is read from them.
UnreadableBodies ==
  {[owner |-> <<>>, repo |-> <<>>, path |-> <<>>, baseBranch |-> <<>>,
    baseSha |-> <<>>, markdown |-> <<>>, prTitle |-> <<>>, prBody |-> <<>>,
    raw |-> raw] : raw \in {"null", "{\"owner\": \"o\", ", ""}}

\* await request.json() or the destructuring throws
Unreadable(body) == "raw" \in DOMAIN body

NoBody == Body(<<>>, <<>>, <<>>)
NoResponse == [status |-> 0]
NoCommit == <<>>
NoPull == [html_url |-> [pull |-> 0], number |-> 0]
NoHist == [fetched |-> <<>>, matched |-> FALSE, createdRef |-> FALSE,
           replaced |-> <<>>, prData |-> NoPull]
NoThrow == [r |-> 0]
Thrown(r, e) == [r |-> r, e |-> e]

\* The provider calls of the handler, in the order of the code.
GetRepo    == "repos.get"
GetContent == "repos.getContent"
GetRef     == "git.getRef"
CreateRef  == "git.createRef"
UpdateFile == "repos.createOrUpdateFileContents"
CreatePull == "pulls.create"
DeleteRef  == "git.deleteRef"

CallSteps == {GetRepo, GetContent, GetRef, CreateRef, UpdateFile, CreatePull}

\* !owner || !repo || !path || !baseSha || !markdown
MissingFields(body) ==
  \/ body.owner = <<>> \/ body.repo = <<>> \/ body.path = <<>>
  \/ body.baseSha = <<>> \/ body.markdown = <<>>

\* if (!resolvedBaseBranch): the default branch is looked up
NeedsDefaultBranchAlways(body) == TRUE
NeedsDefaultBranch(body) == body.baseBranch = <<>>

\* Array.isArray(data) || data.type !== 'file'
NotAFile(data) == data.isArray \/ data.type # "file"

\* currentSha !== baseSha
IsConflictNever(currentSha, baseSha) == FALSE
IsConflict(currentSha, baseSha) == currentSha # baseSha

ConflictResponse(file) ==
  Json(409, [error |-> "File changed upstream", upstreamSha |-> file.sha,
             upstreamMarkdown |-> Utf8Decode(Base64Decode(file.content))])

\* The tree at the head of a commit.
TreeOf(commit) == commit[Len(commit)]

\* sha: currentSha, the blob the commit must replace
CommitParentShaOfBranch(r) == BlobSha(TreeOf(refs[newBranchName[r]])[req[r].path])
CommitParentSha(r) == currentFile[r].sha

\* title: prTitle || `Update ${path}`; body: prBody || '...'
PullTitle(body) ==
  IF body.prTitle # <<>> THEN body.prTitle
  ELSE <<"U", "p", "d", "a", "t", "e", " ">> \o body.path
PullBody(body) ==
  IF body.prBody # <<>> THEN body.prBody
  ELSE <<"E", "d", "i", "t", "e", "d", " ", "v", "i", "a", " ", "N", "o",
       "t", "i", "o", "n", "-", "l", "i", "k", "e", " ", "e", "d", "i", "t",
       "o", "r">>

SuccessResponseOfCount(prData) ==
  Json(200, [prUrl |-> prData.html_url, prNumber |-> Len(pulls)])
SuccessResponse(prData) ==
  Json(200, [prUrl |-> prData.html_url, prNumber |-> prData.number])

(***************************************************************************)
(* POST /api/pr: the handler, one action per await                         *)
(***************************************************************************)

MaxPushes == 1
MaxClock == 2

Tree0 == [p \in FilePaths |-> Upstream1]

InitProvider ==
  /\ refs = (Main :> <<Tree0>>) @@ (Dev :> <<Tree0, [Tree0 EXCEPT ![PathAB] = Upstream2]>>)
  /\ pulls = <<>>
  /\ now = 0
  /\ pushes = 0

InitPR ==
  /\ pc = [r \in Reqs |-> "idle"]
  /\ req = [r \in Reqs |-> NoBody]
  /\ resolvedBaseBranch = [r \in Reqs |-> <<>>]
  /\ currentFile = [r \in Reqs |-> NoFile]
  /\ baseCommitSha = [r \in Reqs |-> NoCommit]
  /\ newBranchName = [r \in Reqs |-> <<>>]
  /\ resp = [r \in Reqs |-> NoResponse]
  /\ calls = [r \in Reqs |-> <<>>]
  /\ hist = [r \in Reqs |-> NoHist]
  /\ thrown = NoThrow

InitTreeIdle ==
  /\ listing = <<>>
  /\ tpc = "off" /\ treq = <<>> /\ tbranch = <<>> /\ tsha = ""
  /\ tresp = NoResponse /\ tcalls = <<>>

InitFileIdle ==
  /\ fpc = "off" /\ freq = <<>> /\ fresp = NoResponse /\ fcalls = <<>>
  /\ fversion = "route.ts"

\* No page is open.
InitClientIdle == page = <<>> /\ editor = <<>> /\ sent = <<>> /\ inflight = {}

Init == InitProvider /\ InitPR /\ InitTreeIdle /\ InitFileIdle /\ InitClientIdle

\* return NextResponse.json(...)
Return(r, response) ==
  /\ resp' = [resp EXCEPT ![r] = response]
  /\ pc' = [pc EXCEPT ![r] = "done"]

Called(r, ok) == calls' = [calls EXCEPT ![r] = Append(@, [call |-> pc[r], ok |-> ok])]

\* A provider call of request r rejects with e: control passes to the catch
\* block, which answers and issues no further call.
CatchWithRollback(r, e) ==
  /\ calls' = [calls EXCEPT ![r] =
       @ \o <<[call |-> pc[r], ok |-> FALSE]>>
         \o (IF hist[r].createdRef THEN <<[call |-> DeleteRef, ok |-> TRUE]>> ELSE <<>>)]
  /\ Return(r, CatchResponsePR(e))
  /\ refs' = IF hist[r].createdRef
             THEN [b \in DOMAIN refs \ {newBranchName[r]} |-> refs[b]] ELSE refs
  /\ UNCHANGED <<pulls, now, pushes>>
  /\ UNCHANGED <<req, resolvedBaseBranch, currentFile, baseCommitSha, newBranchName, hist>>
Catch(r, e) ==
  /\ Called(r, FALSE)
  /\ Return(r, CatchResponsePR(e))
  /\ UNCHANGED provider
  /\ UNCHANGED <<req, resolvedBaseBranch, currentFile, baseCommitSha, newBranchName, hist>>

\* request.json() (a body that cannot be read goes to the catch block), the
\* required-field check, and the choice of the first call.
Receive(r) ==
  /\ pc[r] = "idle"
  /\ \E body \in PostBodies \cup UnreadableBodies :
       /\ req' = [req EXCEPT ![r] = body]
       /\ IF Unreadable(body)
          THEN /\ Return(r, CatchResponsePR([thrown |-> TRUE]))
               /\ UNCHANGED resolvedBaseBranch
          ELSE IF MissingFields(body)
          THEN /\ Return(r, Json(400,
                      [error |-> "owner, repo, path, baseSha, and markdown are required"]))
               /\ UNCHANGED resolvedBaseBranch
          ELSE /\ resolvedBaseBranch' = [resolvedBaseBranch EXCEPT ![r] = body.baseBranch]
               /\ pc' = [pc EXCEPT ![r] =
                           IF NeedsDefaultBranch(body) THEN GetRepo ELSE GetContent]
               /\ UNCHANGED resp
       /\ thrown' = IF Unreadable(body) THEN Thrown(r, [thrown |-> TRUE]) ELSE NoThrow
  /\ UNCHANGED provider
  /\ UNCHANGED <<currentFile, baseCommitSha, newBranchName, calls, hist>>
  /\ UNCHANGED <<treeVars, fileVars, clientVars>>

\* 1. repos.get answers: the default branch
ReposGet(r) ==
  /\ pc[r] = GetRepo
  /\ Called(r, TRUE)
  /\ resolvedBaseBranch' = [resolvedBaseBranch EXCEPT ![r] = DefaultBranch]
  /\ pc' = [pc EXCEPT ![r] = GetContent]
  /\ thrown' = NoThrow
  /\ UNCHANGED provider
  /\ UNCHANGED <<req, currentFile, baseCommitSha, newBranchName, resp, hist>>
  /\ UNCHANGED <<treeVars, fileVars, clientVars>>

\* 2. repos.getContent answers; the type check and the optimistic-lock check
ReposGetContent(r) ==
  /\ pc[r] = GetContent
  /\ resolvedBaseBranch[r] \in DOMAIN refs
  /\ LET tree == TreeOf(refs[resolvedBaseBranch[r]])
         data == ContentData(tree, req[r].path)
     IN  /\ Called(r, TRUE)
         /\ currentFile' = [currentFile EXCEPT ![r] = data]
         /\ IF NotAFile(data)
            THEN /\ Return(r, Json(400, [error |-> "Path is not a file"]))
                 /\ UNCHANGED hist
            ELSE /\ hist' = [hist EXCEPT ![r].fetched = tree[req[r].path],
                                         ![r].matched = (data.sha = req[r].baseSha)]
                 /\ IF IsConflict(data.sha, req[r].baseSha)
                    THEN Return(r, ConflictResponse(data))
                    ELSE /\ pc' = [pc EXCEPT ![r] = GetRef]
                         /\ UNCHANGED resp
  /\ thrown' = NoThrow
  /\ UNCHANGED provider
  /\ UNCHANGED <<req, resolvedBaseBranch, baseCommitSha, newBranchName>>
  /\ UNCHANGED <<treeVars, fileVars, clientVars>>

\* 3. git.getRef answers: the head commit of the base branch; the branch name
\*    is made from the path and the clock, and createRef is issued
GitGetRef(r) ==
  /\ pc[r] = GetRef
  /\ resolvedBaseBranch[r] \in DOMAIN refs
  /\ Called(r, TRUE)
  /\ baseCommitSha' = [baseCommitSha EXCEPT ![r] = refs[resolvedBaseBranch[r]]]
  /\ newBranchName' = [newBranchName EXCEPT ![r] = createBranchSlug(req[r].path, now)]
  /\ pc' = [pc EXCEPT ![r] = CreateRef]
  /\ thrown' = NoThrow
  /\ UNCHANGED provider
  /\ UNCHANGED <<req, resolvedBaseBranch, currentFile, resp, hist>>
  /\ UNCHANGED <<treeVars, fileVars, clientVars>>

\* 4. git.createRef: the provider refuses a ref that exists (422)
GitCreateRefOverExisting(r) ==
  /\ pc[r] = CreateRef
  /\ Called(r, TRUE)
  /\ refs' = (newBranchName[r] :> baseCommitSha[r]) @@ refs
  /\ hist' = [hist EXCEPT ![r].createdRef = TRUE]
  /\ pc' = [pc EXCEPT ![r] = UpdateFile]
  /\ UNCHANGED <<pulls, now, pushes>>
  /\ UNCHANGED <<req, resolvedBaseBranch, currentFile, baseCommitSha, newBranchName, resp>>
  /\ thrown' = NoThrow
  /\ UNCHANGED <<treeVars, fileVars, clientVars>>
GitCreateRef(r) ==
  /\ pc[r] = CreateRef
  /\ IF newBranchName[r] \in DOMAIN refs
     THEN Catch(r, [status |-> 422])
     ELSE /\ Called(r, TRUE)
          /\ refs' = refs @@ (newBranchName[r] :> baseCommitSha[r])
          /\ hist' = [hist EXCEPT ![r].createdRef = TRUE]
          /\ pc' = [pc EXCEPT ![r] = UpdateFile]
          /\ UNCHANGED <<pulls, now, pushes>>
          /\ UNCHANGED <<req, resolvedBaseBranch, currentFile, baseCommitSha,
                         newBranchName, resp>>
  /\ thrown' = IF newBranchName[r] \in DOMAIN refs
               THEN Thrown(r, [status |-> 422]) ELSE NoThrow
  /\ UNCHANGED <<treeVars, fileVars, clientVars>>

\* 5. repos.createOrUpdateFileContents: the provider replaces the file on the
\*    branch only if the blob there has the sha given (409 otherwise)
ReposUpdateFile(r) ==
  /\ pc[r] = UpdateFile
  /\ IF newBranchName[r] \notin DOMAIN refs
     THEN Catch(r, [status |-> 404])
     ELSE LET commit  == refs[newBranchName[r]]
              tree    == TreeOf(commit)
              content == Base64Encode(Utf8Encode(req[r].markdown))
          IN  IF BlobSha(tree[req[r].path]) # CommitParentSha(r)
              THEN Catch(r, [status |-> 409])
              ELSE /\ Called(r, TRUE)
                   /\ refs' = [refs EXCEPT ![newBranchName[r]] =
                        Append(commit, [tree EXCEPT ![req[r].path] = Base64Decode(content)])]
                   /\ hist' = [hist EXCEPT ![r].replaced = tree[req[r].path]]
                   /\ pc' = [pc EXCEPT ![r] = CreatePull]
                   /\ UNCHANGED <<pulls, now, pushes>>
                   /\ UNCHANGED <<req, resolvedBaseBranch, currentFile, baseCommitSha,
                                  newBranchName, resp>>
  /\ thrown' = IF newBranchName[r] \notin DOMAIN refs THEN Thrown(r, [status |-> 404])
               ELSE IF BlobSha(TreeOf(refs[newBranchName[r]])[req[r].path])
                         # CommitParentSha(r)
                    THEN Thrown(r, [status |-> 409]) ELSE NoThrow
  /\ UNCHANGED <<treeVars, fileVars, clientVars>>

\* 6. pulls.create answers: the pull request's number and URL
PullsCreateToDefault(r) ==
  /\ pc[r] = CreatePull
  /\ LET n == Len(pulls) + 1
         prData == [html_url |-> [pull |-> n], number |-> n]
     IN  /\ Called(r, TRUE)
         /\ pulls' = Append(pulls, [head |-> newBranchName[r],
                                    base |-> DefaultBranch,
                                    title |-> PullTitle(req[r]),
                                    body |-> PullBody(req[r])])
         /\ hist' = [hist EXCEPT ![r].prData = prData]
         /\ Return(r, SuccessResponse(prData))
  /\ thrown' = NoThrow
  /\ UNCHANGED <<refs, now, pushes>>
  /\ UNCHANGED <<req, resolvedBaseBranch, currentFile, baseCommitSha, newBranchName>>
  /\ UNCHANGED <<treeVars, fileVars, clientVars>>
PullsCreate(r) ==
  /\ pc[r] = CreatePull
  /\ LET n == Len(pulls) + 1
         prData == [html_url |-> [pull |-> n], number |-> n]
     IN  /\ Called(r, TRUE)
         /\ pulls' = Append(pulls, [head |-> newBranchName[r],
                                    base |-> resolvedBaseBranch[r],
                                    title |-> PullTitle(req[r]),
                                    body |-> PullBody(req[r])])
         /\ hist' = [hist EXCEPT ![r].prData = prData]
         /\ Return(r, SuccessResponse(prData))
  /\ thrown' = NoThrow
  /\ UNCHANGED <<refs, now, pushes>>
  /\ UNCHANGED <<req, resolvedBaseBranch, currentFile, baseCommitSha, newBranchName>>
  /\ UNCHANGED <<treeVars, fileVars, clientVars>>

\* One error for each response the catch block can give: the state of Spec
\* does not keep the error, only the response.
ErrorClasses ==
  {CHOOSE e \in ProviderErrors : CatchResponsePR(e) = x
     : x \in {CatchResponsePR(e) : e \in ProviderErrors}}

\* Any call may reject: a provider error status, or a failure with no status.
Throw(r) ==
  /\ pc[r] \in CallSteps
  /\ \E e \in ErrorClasses : Catch(r, e)
  /\ thrown' = NoThrow
  /\ UNCHANGED <<treeVars, fileVars, clientVars>>

\* Another writer pushes a change of a file to a base branch, while a request
\* is under way.
Push ==
  /\ pushes < MaxPushes
  /\ \E r \in Reqs : pc[r] # "done"
  /\ \E b \in BaseBranchNames, u \in UpstreamBlobs :
       /\ TreeOf(refs[b])[PathAB] # u
       /\ refs' = [refs EXCEPT ![b] = Append(@, [TreeOf(@) EXCEPT ![PathAB] = u])]
  /\ pushes' = pushes + 1
  /\ UNCHANGED <<pulls, now>>
  /\ UNCHANGED <<pc, req, resolvedBaseBranch, currentFile, baseCommitSha,
                 newBranchName, resp, calls, hist>>
  /\ thrown' = NoThrow
  /\ UNCHANGED <<treeVars, fileVars, clientVars>>

\* Time passes, while a request has yet to name its branch.
Tick ==
  /\ now < MaxClock
  /\ \E r \in Reqs : pc[r] \in {"idle", GetRepo, GetContent, GetRef}
  /\ now' = now + 1
  /\ UNCHANGED <<refs, pulls, pushes>>
  /\ UNCHANGED <<pc, req, resolvedBaseBranch, currentFile, baseCommitSha,
                 newBranchName, resp, calls, hist>>
  /\ thrown' = NoThrow
  /\ UNCHANGED <<treeVars, fileVars, clientVars>>

\* The same rejection, of any error a call can throw, with the error kept.
ThrowObserved(r) ==
  /\ pc[r] \in CallSteps
  /\ \E e \in ProviderErrors : Catch(r, e) /\ thrown' = Thrown(r, e)
  /\ UNCHANGED <<treeVars, fileVars, clientVars>>

Next ==
  \/ \E r \in Reqs : Receive(r)
  \/ \E r \in Reqs : ReposGet(r)
  \/ \E r \in Reqs : ReposGetContent(r)
  \/ \E r \in Reqs : GitGetRef(r)
  \/ \E r \in Reqs : GitCreateRef(r)
  \/ \E r \in Reqs : ReposUpdateFile(r)
  \/ \E r \in Reqs : PullsCreate(r)
  \/ \E r \in Reqs : Throw(r)
  \/ Push
  \/ Tick

Spec == Init /\ [][Next]_vars

\* One publish request on its own, each thrown error kept in the state.
NextThrow ==
  \/ Receive(1)
  \/ ReposGet(1)
  \/ ReposGetContent(1)
  \/ GitGetRef(1)
  \/ GitCreateRef(1)
  \/ ReposUpdateFile(1)
  \/ PullsCreate(1)
  \/ ThrowObserved(1)
  \/ Push
  \/ Tick

SpecThrow == Init /\ [][NextThrow]_vars

(***************************************************************************)
(* GET /api/repo/tree                                                      *)
(***************************************************************************)

MaxTree == 3

Markdown == <<"m", "a", "r", "k", "d", "o", "w", "n">>

\* Entries a recursive git tree may hold: files, a directory, a submodule.
TreeEntries ==
  { [path |-> <<"b", ".", "m", "d">>, type |-> "blob"],
    [path |-> <<"B", ".", "m", "d">>, type |-> "blob"],
    [path |-> <<"a", "/", "b", ".">> \o Markdown, type |-> "blob"],
    [path |-> <<"a", ".", "m", "d", "x">>, type |-> "blob"],
    [path |-> <<"d", ".", "m", "d">>, type |-> "tree"],
    [path |-> <<"s", ".", "m", "d">>, type |-> "commit"],
    [path |-> <<"x", ".", "M", "D">>, type |-> "blob"] }

\* The trees of at most n entries, in any order: a path occurs once in a tree.
RECURSIVE TreesUpTo(_)
TreesUpTo(n) ==
  IF n = 0 THEN {<<>>}
  ELSE LET shorter == TreesUpTo(n - 1) IN
       shorter \cup
       {Append(t, e) : t \in {u \in shorter : Len(u) = n - 1},
                       e \in TreeEntries}

PathsDistinct(t) == \A i, j \in 1..Len(t) : t[i].path = t[j].path => i = j

Trees == {t \in TreesUpTo(MaxTree) : PathsDistinct(t)}

DevTree == << [path |-> <<"R", ".", "m", "d">>, type |-> "blob"] >>

Nope == <<"n", "o", "p", "e">>

TreeQuery(owner, repo, branch) == [owner |-> owner, repo |-> repo, branch |-> branch]

\* searchParams of the requests: '' stands for a parameter absent or empty.
TreeQueries ==
  {TreeQuery(Owner, Repo, b) : b \in {<<>>, Main, Dev, Nope}}
  \cup {TreeQuery(<<>>, Repo, <<>>), TreeQuery(Owner, <<>>, Main)}

GetTree == "git.getTree"
TreeCallSteps == {GetRepo, GetRef, GetTree}

\* Errors thrown at the calls of the GET handlers: one of each status, a
\* failure without status, and a 403 with each rate-limit signal.
ThrownOnGet ==
  {[status |-> st] : st \in ErrorStatuses} \cup {[thrown |-> TRUE]}
  \cup {[status |-> 403, remaining |-> <<"0">>],
        [status |-> 403, message |-> <<"A", "P", "I", " ">> \o RateLimitWords]}

\* item.path && (item.path.endsWith('.md') || item.path.endsWith('.markdown'))
IsMarkdownPath(path) ==
  /\ path # <<>>
  /\ \/ EndsWith(path, <<".", "m", "d">>)
     \/ EndsWith(path, <<".">> \o Markdown)

\* item.type === 'blob' && ...
IsMarkdownBlob(item) == item.type = "blob" /\ IsMarkdownPath(item.path)

\* tree.filter(...).map(item => item.path)
RECURSIVE FilterPaths(_)
FilterPaths(t) ==
  IF t = <<>> THEN <<>>
  ELSE (IF IsMarkdownBlob(Head(t)) THEN <<Head(t).path>> ELSE <<>>)
       \o FilterPaths(Tail(t))

RECURSIVE Insert(_, _)
Insert(x, sorted) ==
  IF sorted = <<>> THEN <<x>>
  ELSE IF StrLess(x, Head(sorted)) THEN <<x>> \o sorted
  ELSE <<Head(sorted)>> \o Insert(x, Tail(sorted))

\* paths.sort(): ascending by code units
SortPathsUnsorted(paths) == paths
RECURSIVE SortPaths(_)
SortPaths(paths) ==
  IF paths = <<>> THEN <<>> ELSE Insert(Head(paths), SortPaths(Tail(paths)))

MarkdownFiles(t) == SortPaths(FilterPaths(t))

\* if (!branch): the default branch is looked up
BranchOmittedAlways(query) == TRUE
BranchOmitted(query) == query.branch = <<>>

\* The catch block of the tree handler.
CatchResponseTree(e) ==
  IF ErrStatus(e) = 404
    THEN Json(404, [error |-> "Repository not found or branch does not exist"])
  ELSE IF ErrStatus(e) = 403
    THEN Json(403, [error |->
           "Rate limit exceeded. Consider adding a GITHUB_TOKEN to .env.local"])
  ELSE Json(500, [error |-> "Failed to fetch repository tree"])

InitTree ==
  /\ InitProvider /\ InitPR /\ InitFileIdle /\ InitClientIdle
  /\ \E t \in Trees :
       listing = [heads |-> (Main :> "c1") @@ (Dev :> "c2"),
                  trees |-> ("c1" :> t) @@ ("c2" :> DevTree)]
  /\ tpc = "idle" /\ treq = TreeQuery(<<>>, <<>>, <<>>) /\ tbranch = <<>>
  /\ tsha = "" /\ tresp = NoResponse /\ tcalls = <<>>

TreeReturn(response) == tresp' = response /\ tpc' = "done"
TreeCalled(ok) == tcalls' = Append(tcalls, [call |-> tpc, ok |-> ok])

\* The tree handler touches nothing of the other handlers or of the files.
TreeFrame ==
  /\ UNCHANGED <<provider, fileVars, clientVars>>
  /\ UNCHANGED <<pc, req, resolvedBaseBranch, currentFile, baseCommitSha,
                 newBranchName, resp, calls, hist>>

TreeCatch(e) ==
  /\ TreeCalled(FALSE)
  /\ TreeReturn(CatchResponseTree(e))
  /\ thrown' = Thrown(1, e)
  /\ UNCHANGED <<listing, treq, tbranch, tsha>>

\* The parameters are read and checked, and the first call is chosen.
TreeReceive ==
  /\ tpc = "idle"
  /\ \E query \in TreeQueries :
       /\ treq' = query
       /\ tbranch' = query.branch
       /\ IF query.owner = <<>> \/ query.repo = <<>>
          THEN TreeReturn(Json(400, [error |-> "owner and repo are required"]))
          ELSE /\ tpc' = IF BranchOmitted(query) THEN GetRepo ELSE GetRef
               /\ UNCHANGED tresp
  /\ UNCHANGED <<listing, tsha, tcalls, thrown>>
  /\ TreeFrame

\* repos.get answers: the default branch
TreeReposGet ==
  /\ tpc = GetRepo
  /\ TreeCalled(TRUE)
  /\ tbranch' = DefaultBranch
  /\ tpc' = GetRef
  /\ UNCHANGED <<listing, treq, tsha, tresp, thrown>>
  /\ TreeFrame

\* git.getRef answers: the head of the branch, or 404 for no such branch
TreeGitGetRef ==
  /\ tpc = GetRef
  /\ IF tbranch \in DOMAIN listing.heads
     THEN /\ TreeCalled(TRUE)
          /\ tsha' = listing.heads[tbranch]
          /\ tpc' = GetTree
          /\ UNCHANGED <<listing, treq, tbranch, tresp, thrown>>
     ELSE TreeCatch([status |-> 404])
  /\ TreeFrame

\* git.getTree answers; the paths are filtered and sorted
TreeGitGetTree ==
  /\ tpc = GetTree
  /\ TreeCalled(TRUE)
  /\ TreeReturn(Json(200, [branch |-> tbranch,
                           files |-> MarkdownFiles(listing.trees[tsha])]))
  /\ UNCHANGED <<listing, treq, tbranch, tsha, thrown>>
  /\ TreeFrame

\* A call rejects.
TreeThrow ==
  /\ tpc \in TreeCallSteps
  /\ \E e \in ThrownOnGet : TreeCatch(e)
  /\ TreeFrame

NextTree ==
  \/ TreeReceive
  \/ TreeReposGet
  \/ TreeGitGetRef
  \/ TreeGitGetTree
  \/ TreeThrow

SpecTree == InitTree /\ [][NextTree]_vars

(***************************************************************************)
(* GET /api/repo/file                                                      *)
(***************************************************************************)

PathLink    == <<"l">>
PathSub     == <<"s">>
PathMissing == <<"z", ".", "m", "d">>

\* basename of a path: the provider's name field
RECURSIVE Name(_)
Name(path) ==
  IF \E i \in 1..Len(path) : path[i] = "/"
  THEN Name(Tail(path)) ELSE path

\* What repos.getContent answers for a path that exists at a ref: a file
\* with its content, an array for a directory, or an entry of another type,
\* which has no content.
ContentEntry(tree, path) ==
  IF path \in DOMAIN tree
    THEN [isArray |-> FALSE, type |-> "file", sha |-> BlobSha(tree[path]),
          content |-> Base64Encode(tree[path]), name |-> Name(path), path |-> path]
  ELSE IF path = PathDir THEN [isArray |-> TRUE]
  ELSE [isArray |-> FALSE, type |-> IF path = PathLink THEN "symlink" ELSE "submodule",
        sha |-> BlobSha(<<>>), name |-> Name(path), path |-> path]

PathsThere == FilePaths \cup {PathDir, PathLink, PathSub}

FileQuery(owner, repo, path, ref) ==
  [owner |-> owner, repo |-> repo, path |-> path, ref |-> ref]

FileQueries ==
  {FileQuery(Owner, Repo, p, b) : p \in PathsThere \cup {PathMissing},
                                  b \in {<<>>, Dev, Nope}}
  \cup {FileQuery(<<>>, Repo, PathAB, <<>>), FileQuery(Owner, <<>>, PathAB, <<>>),
        FileQuery(Owner, Repo, <<>>, <<>>)}

\* Bytes a file may hold: text, nothing, and bytes that are not utf-8.
FileBlobs == UpstreamBlobs \cup {<<>>, <<255, 104>>}

\* Array.isArray(content.data) || content.data.type !== 'file'
NotAFileDataArrayOnly(data) == data.isArray
NotAFileData(data) == data.isArray \/ data.type # "file"

FileResponse(data) ==
  Json(200, [markdown |-> Utf8Decode(Base64Decode(data.content)),
             sha |-> data.sha, name |-> data.name, path |-> data.path])

\* The catch block of the file handler.
CatchResponseFile(e) ==
  IF ErrStatus(e) = 404
    THEN Json(404, [error |-> "File not found"])
  ELSE IF ErrStatus(e) = 403
    THEN Json(403, [error |->
           "Rate limit exceeded. Consider adding a GITHUB_TOKEN to .env.local"])
  ELSE Json(500, [error |-> "Failed to fetch file content"])

\* The catch block of the other version of the file handler.
CatchResponseFile000(e) ==
  IF ErrStatus(e) = 401
    THEN Json(401, [error |-> "Unauthorized or insufficient scope. Check GITHUB_TOKEN."])
  ELSE IF ErrStatus(e) = 403
    THEN IF RateLimitSignal(e)
         THEN Json(403, [error |-> "Rate limit exceeded. Add or adjust GITHUB_TOKEN."])
         ELSE Json(403, [error |->
                "Unauthorized or insufficient scope. Check GITHUB_TOKEN."])
  ELSE IF ErrStatus(e) = 404
    THEN Json(404, [error |-> "Repo or path not found."])
  ELSE Json(500, [error |-> "Failed to fetch file content"])

\* The two versions differ in their catch blocks only.
FileVersions == {"route.ts", "part_000"}
CatchResponseOf(version, e) ==
  IF version = "part_000" THEN CatchResponseFile000(e) ELSE CatchResponseFile(e)

InitFile ==
  /\ InitPR /\ InitTreeIdle /\ InitClientIdle
  /\ \E u \in FileBlobs :
       refs = (Main :> <<[Tree0 EXCEPT ![PathAB] = u]>>)
              @@ (Dev :> <<Tree0, [Tree0 EXCEPT ![PathAB] = Upstream2]>>)
  /\ pulls = <<>> /\ now = 0 /\ pushes = 0
  /\ fpc = "idle" /\ freq = FileQuery(<<>>, <<>>, <<>>, <<>>)
  /\ fresp = NoResponse /\ fcalls = <<>>
  /\ fversion \in FileVersions

FileFrame ==
  /\ UNCHANGED <<provider, treeVars, fversion, clientVars>>
  /\ UNCHANGED <<pc, req, resolvedBaseBranch, currentFile, baseCommitSha,
                 newBranchName, resp, calls, hist>>

FileReturn(response) == fresp' = response /\ fpc' = "done"

FileCatch(e) ==
  /\ FileReturn(CatchResponseOf(fversion, e))
  /\ thrown' = Thrown(1, e)

\* The parameters are read and checked; getContent is called.
FileReceive ==
  /\ fpc = "idle"
  /\ \E query \in FileQueries :
       /\ freq' = query
       /\ IF query.owner = <<>> \/ query.repo = <<>> \/ query.path = <<>>
          THEN FileReturn(Json(400, [error |-> "owner, repo, and path are required"]))
          ELSE fpc' = GetContent /\ UNCHANGED fresp
  /\ UNCHANGED <<fcalls, thrown>>
  /\ FileFrame

\* repos.getContent answers (404 for no such ref or path); the type check,
\* the decoding and the response.  Decoding a content that is not there throws.
FileReposGetContent ==
  /\ fpc = GetContent
  /\ LET ref == IF freq.ref = <<>> THEN DefaultBranch ELSE freq.ref
         found == ref \in DOMAIN refs /\ freq.path \in PathsThere
         data == ContentEntry(TreeOf(refs[ref]), freq.path)
     IN  /\ fcalls' = Append(fcalls, [call |-> GetContent, ok |-> found])
         /\ IF ~found THEN FileCatch([status |-> 404])
            ELSE IF NotAFileData(data)
              THEN FileReturn(Json(400, [error |-> "Not a file"])) /\ thrown' = NoThrow
            ELSE IF "content" \notin DOMAIN data THEN FileCatch([thrown |-> TRUE])
            ELSE FileReturn(FileResponse(data)) /\ thrown' = NoThrow
  /\ UNCHANGED freq
  /\ FileFrame

\* The call rejects.
FileThrow ==
  /\ fpc = GetContent
  /\ fcalls' = Append(fcalls, [call |-> GetContent, ok |-> FALSE])
  /\ \E e \in ThrownOnGet : FileCatch(e)
  /\ UNCHANGED freq
  /\ FileFrame

NextFile ==
  \/ FileReceive
  \/ FileReposGetContent
  \/ FileThrow

SpecFile == InitFile /\ [][NextFile]_vars

(***************************************************************************)
(* The three routes: one request, to any one of them                       *)
(***************************************************************************)

InitRoutes == Init \/ InitTree \/ InitFile

\* The request is a publish: the GET handlers are not running.
PublishAlone == tpc = "off" /\ fpc = "off"

NextRoutes ==
  \/ PublishAlone /\ Receive(1)
  \/ PublishAlone /\ ReposGet(1)
  \/ PublishAlone /\ ReposGetContent(1)
  \/ PublishAlone /\ GitGetRef(1)
  \/ PublishAlone /\ GitCreateRef(1)
  \/ PublishAlone /\ ReposUpdateFile(1)
  \/ PublishAlone /\ PullsCreate(1)
  \/ PublishAlone /\ ThrowObserved(1)
  \/ TreeReceive
  \/ TreeReposGet
  \/ TreeGitGetRef
  \/ TreeGitGetTree
  \/ TreeThrow
  \/ FileReceive
  \/ FileReposGetContent
  \/ FileThrow

SpecRoutes == InitRoutes /\ [][NextRoutes]_vars

(***************************************************************************)
(* createBranchSlug on its own: a path and an instant in, a branch name out *)
(***************************************************************************)

MaxPath == 3

SlugAlphabet == {"a", "Z", "7", "/", "-", " ", ".", "é"}

GettingStarted ==
  <<"d", "o", "c", "s", "/", "G", "e", "t", "t", "i", "n", "g", " ",
    "S", "t", "a", "r", "t", "e", "d", ".", "m", "d">>

\* The first n characters of a pattern repeated.
Cycle(pattern, n) == [i \in 1..n |-> pattern[((i - 1) % Len(pattern)) + 1]]

RECURSIVE PathsUpTo(_)
PathsUpTo(n) ==
  IF n = 0 THEN {<<>>}
  ELSE LET shorter == PathsUpTo(n - 1) IN
       shorter \cup {Append(p, c) : p \in {q \in shorter : Len(q) = n - 1},
                                    c \in SlugAlphabet}

\* Short paths of every shape, and paths around the length where the slug
\* is cut, with and without characters that are dropped.
SlugPaths ==
  (PathsUpTo(MaxPath) \ {<<>>})
  \cup {GettingStarted}
  \cup {Cycle(<<"a", "B", "-">>, n) : n \in (SlugMax - 1)..(SlugMax + 2)}
  \cup {Cycle(<<"A", "/", "b", " ", "9", "-", ".", "x">>, n) :
          n \in (SlugMax + 10)..(SlugMax + 16)}

InitSlug ==
  /\ InitProvider!1 /\ pulls = <<>> /\ pushes = 0
  /\ now \in 0..MaxClock
  /\ InitTreeIdle /\ InitFileIdle /\ InitClientIdle
  /\ \E path \in SlugPaths :
       req = [r \in Reqs |-> IF r = 1 THEN Body(path, Main, BlobSha(Upstream1))
                             ELSE NoBody]
  /\ pc = [r \in Reqs |-> IF r = 1 THEN "createBranchSlug" ELSE "idle"]
  /\ resolvedBaseBranch = [r \in Reqs |-> <<>>]
  /\ currentFile = [r \in Reqs |-> NoFile]
  /\ baseCommitSha = [r \in Reqs |-> NoCommit]
  /\ newBranchName = [r \in Reqs |-> <<>>]
  /\ resp = [r \in Reqs |-> NoResponse]
  /\ calls = [r \in Reqs |-> <<>>]
  /\ hist = [r \in Reqs |-> NoHist]
  /\ thrown = NoThrow

\* const newBranchName = createBranchSlug(path)
CreateBranchSlug ==
  /\ pc[1] = "createBranchSlug"
  /\ newBranchName' = [newBranchName EXCEPT ![1] = createBranchSlug(req[1].path, now)]
  /\ pc' = [pc EXCEPT ![1] = "named"]
  /\ UNCHANGED <<provider, treeVars, fileVars, clientVars>>
  /\ UNCHANGED <<req, resolvedBaseBranch, currentFile, baseCommitSha, resp, calls,
                 hist, thrown>>

NextSlug == CreateBranchSlug

SpecSlug == InitSlug /\ [][NextSlug]_vars

(***************************************************************************)
(* The browser: marked and turndown, on documents of headings, paragraphs  *)
(* and bullet lists whose text is plain letters                            *)
(***************************************************************************)

IsSpace(c) == c \in {" ", "\n"}

\* s.trim()
RECURSIVE TrimStart(_)
TrimStart(s) == IF s # <<>> /\ IsSpace(Head(s)) THEN TrimStart(Tail(s)) ELSE s
RECURSIVE TrimEnd(_)
TrimEnd(s) ==
  IF s # <<>> /\ IsSpace(s[Len(s)]) THEN TrimEnd(SubSeq(s, 1, Len(s) - 1)) ELSE s
Trim(s) == TrimEnd(TrimStart(s))

\* The lines of a text.
RECURSIVE SplitLines(_, _)
SplitLines(s, line) ==
  IF s = <<>> THEN <<line>>
  ELSE IF Head(s) = "\n" THEN <<line>> \o SplitLines(Tail(s), <<>>)
  ELSE SplitLines(Tail(s), Append(line, Head(s)))

\* What a line of markdown opens: an atx heading '# text', a bullet item
\* '- text' or '* text', or text; leading and trailing blanks do not count.
LineKind(line) ==
  LET t == Trim(line) IN
  IF t = <<>> THEN "blank"
  ELSE IF Len(t) >= 2 /\ t[1] = "#" /\ t[2] = " " THEN "h1"
  ELSE IF Len(t) >= 2 /\ t[1] \in {"-", "*"} /\ t[2] = " " THEN "li"
  ELSE "p"
LineText(line) ==
  IF LineKind(line) \in {"h1", "li"} THEN Trim(Tail(Trim(line))) ELSE Trim(line)

\* The blocks of a document: a blank line closes a paragraph; items that
\* follow one another make one list; text lines that follow one another make
\* one paragraph.
RECURSIVE Blocks(_, _, _)
Blocks(lines, done, open) ==
  IF lines = <<>> THEN done
  ELSE LET kind == LineKind(Head(lines))
           text == LineText(Head(lines))
           n == Len(done)
           last == IF n = 0 THEN "none" ELSE done[n].tag
       IN  IF kind = "blank" THEN Blocks(Tail(lines), done, FALSE)
           ELSE IF kind = "h1"
             THEN Blocks(Tail(lines), Append(done, [tag |-> "h1", text |-> <<text>>]), FALSE)
           ELSE IF kind = "li"
             THEN Blocks(Tail(lines),
                         IF last = "ul"
                         THEN [done EXCEPT ![n].text = Append(@, text)]
                         ELSE Append(done, [tag |-> "ul", text |-> <<text>>]),
                         TRUE)
           ELSE Blocks(Tail(lines),
                       IF open /\ last \in {"p", "ul"}
                       THEN [done EXCEPT ![n].text[Len(done[n].text)] = @ \o <<"\n">> \o text]
                       ELSE Append(done, [tag |-> "p", text |-> <<text>>]),
                       TRUE)

\* marked.parse(markdown): the HTML, as its sequence of block elements
\* [tag, text]: h1 and p hold one text, ul one text for each li.
Marked(markdown) == Blocks(SplitLines(markdown, <<>>), <<>>, FALSE)

\* White space inside the text of an element collapses to one blank.
RECURSIVE Collapse(_)
Collapse(s) ==
  IF s = <<>> THEN <<>>
  ELSE IF IsSpace(Head(s))
    THEN <<" ">> \o Collapse(TrimStart(s))
    ELSE <<Head(s)>> \o Collapse(Tail(s))

RECURSIVE JoinWith(_, _)
JoinWith(parts, sep) ==
  IF parts = <<>> THEN <<>>
  ELSE IF Len(parts) = 1 THEN parts[1]
  ELSE parts[1] \o sep \o JoinWith(Tail(parts), sep)

\* The markdown turndown writes for a block: '# ' for a heading
\* (headingStyle 'atx'), '*   ' for a list item (the default bullet).
TurndownBlock(block) ==
  IF block.tag = "h1" THEN <<"#", " ">> \o Collapse(block.text[1])
  ELSE IF block.tag = "ul"
    THEN JoinWith([i \in 1..Len(block.text) |->
                     <<"*", " ", " ", " ">> \o Collapse(block.text[i])], <<"\n">>)
  ELSE Collapse(block.text[1])

\* turndownService.turndown(html): the blocks, a blank line between them.
Turndown(html) ==
  JoinWith([i \in 1..Len(html) |-> TurndownBlock(html[i])], <<"\n", "\n">>)

(***************************************************************************)
(* The page (Home): loadFiles, loadFile, the viewer                        *)
(***************************************************************************)

MaxFetches == 3

TreeUrl == "/api/repo/tree"
FileUrl == "/api/repo/file"
PrUrl   == "/api/pr"

\* What the user may type in the three inputs.
PageInputs ==
  [owner : {<<>>, <<" ">>, Owner}, repo : {<<>>, Repo}, branch : {<<>>, Dev}]

\* The files the tree route lists, and the markdown the file route gives.
PageFiles == <<PathA_B, PathAB>>
MarkdownAt(path) ==
  IF path = PathAB THEN <<"#", " ", "a">> ELSE <<"-", " ", "b">>

\* The message of the error when fetch rejects or response.json() throws on
\* a body that is not JSON; an error may have an empty message.
RejectionMessages ==
  {"Failed to fetch",
   "Unexpected token '<', \"<html>Bad \"... is not valid JSON",
   ""}

\* How a fetch can end: a 200 with its body, an error response with its
\* body (with or without an error text), or a rejection (no response, or a
\* body that is not JSON).
TreeAnswers(params) ==
  {[ok |-> TRUE, branch |-> IF params.branch = <<>> THEN Main ELSE params.branch,
    files |-> f] : f \in {<<>>, PageFiles}}
  \cup {[ok |-> FALSE, error |-> "Repository not found or branch does not exist"],
        [ok |-> FALSE, message |-> "Not Found"]}
  \cup {[rejected |-> TRUE, message |-> m] : m \in RejectionMessages}
FileAnswers(params) ==
  {[ok |-> TRUE, markdown |-> MarkdownAt(params.path)],
   [ok |-> FALSE, error |-> "File not found"],
   [ok |-> FALSE, error |-> "Repo or path not found."],
   [ok |-> FALSE, message |-> "Not Found"]}
  \cup {[rejected |-> TRUE, message |-> m] : m \in RejectionMessages}

\* err.message in the catch block: of the rejection, or of
\* new Error('error' in data ? data.error : fallback)
ErrMessage(a, fallback) ==
  IF "rejected" \in DOMAIN a THEN a.message
  ELSE IF "error" \in DOMAIN a THEN a.error
  ELSE fallback

Request(method, url, params) == [method |-> method, url |-> url, params |-> params]

InitPage ==
  /\ InitProvider /\ InitPR /\ InitTreeIdle /\ InitFileIdle
  /\ page = [owner |-> <<>>, repo |-> <<>>, branch |-> <<>>, loading |-> FALSE,
             error |-> "", files |-> <<>>, currentBranch |-> <<>>,
             selectedFile |-> <<>>, fileContent |-> <<>>, loadingFile |-> FALSE,
             edited |-> FALSE]
  /\ editor = <<>> /\ sent = <<>> /\ inflight = {}

PageFrame == UNCHANGED <<provider, prVars, treeVars, fileVars, editor>>

Fetch(request) ==
  /\ sent' = Append(sent, request)
  /\ inflight' = inflight \cup {Len(sent) + 1}

\* onChange of the inputs
Type ==
  /\ \E v \in PageInputs :
       /\ <<v.owner, v.repo, v.branch>> # <<page.owner, page.repo, page.branch>>
       /\ page' = [page EXCEPT !.owner = v.owner, !.repo = v.repo, !.branch = v.branch]
  /\ UNCHANGED <<sent, inflight>>
  /\ PageFrame

\* loadFiles, up to its await: the click on 'Load Files' (disabled while loading)
LoadFiles ==
  /\ ~page.loading
  /\ Len(sent) < MaxFetches
  /\ IF Trim(page.owner) = <<>> \/ Trim(page.repo) = <<>>
     THEN /\ page' = [page EXCEPT !.error = "Please enter both owner and repository name"]
          /\ UNCHANGED <<sent, inflight>>
     ELSE /\ page' = [page EXCEPT !.loading = TRUE, !.error = "", !.files = <<>>,
                                  !.selectedFile = <<>>, !.fileContent = <<>>,
                                  !.edited = FALSE]
          /\ Fetch(Request("GET", TreeUrl,
                           [owner |-> Trim(page.owner), repo |-> Trim(page.repo),
                            branch |-> Trim(page.branch)]))
  /\ PageFrame

\* loadFiles, from its await on: the answer of the tree route
LoadFilesAnswered ==
  /\ \E i \in inflight :
       /\ sent[i].url = TreeUrl
       /\ inflight' = inflight \ {i}
       /\ \E a \in TreeAnswers(sent[i].params) :
            page' =
              IF "rejected" \in DOMAIN a \/ ~a.ok
                THEN [page EXCEPT !.error =
                                    IF ErrMessage(a, "Failed to load files") # ""
                                    THEN ErrMessage(a, "Failed to load files")
                                    ELSE "Failed to load repository",
                                  !.loading = FALSE]
              ELSE [page EXCEPT !.files = a.files, !.currentBranch = a.branch,
                                !.error = IF a.files = <<>>
                                          THEN "No markdown files found in this repository"
                                          ELSE @,
                                !.loading = FALSE]
  /\ UNCHANGED sent
  /\ PageFrame

\* loadFile(path), up to its await: the click on a file of the sidebar
LoadFile ==
  /\ Len(sent) < MaxFetches
  /\ \E k \in 1..Len(page.files) :
       LET path == page.files[k] IN
       IF page.owner = <<>> \/ page.repo = <<>>
       THEN UNCHANGED <<page, sent, inflight>>
       ELSE /\ page' = [page EXCEPT !.loadingFile = TRUE, !.selectedFile = path,
                                    !.fileContent = <<>>, !.edited = FALSE]
            /\ Fetch(Request("GET", FileUrl,
                             [owner |-> page.owner, repo |-> page.repo, path |-> path,
                              ref |-> page.currentBranch]))
  /\ PageFrame

\* The viewer is shown: loadingFile is false and fileContent is not empty.
ViewerShown == ~page.loadingFile /\ page.fileContent # <<>>

\* loadFile, from its await on: the answer of the file route. The viewer
\* keeps what the user typed when it stays mounted and is given the same html
\* (its effect depends on [html, editor]).
LoadFileAnswered ==
  /\ \E i \in inflight :
       /\ sent[i].url = FileUrl
       /\ inflight' = inflight \ {i}
       /\ \E a \in FileAnswers(sent[i].params) :
            page' =
              IF "rejected" \in DOMAIN a \/ ~a.ok
                THEN [page EXCEPT !.error = "Failed to load file: "
                                              \o ErrMessage(a, "Failed to load file"),
                                  !.fileContent = <<>>,
                                  !.loadingFile = FALSE, !.edited = FALSE]
              ELSE [page EXCEPT !.fileContent = Marked(a.markdown),
                                !.loadingFile = FALSE,
                                !.edited = IF ViewerShown
                                              /\ page.fileContent = Marked(a.markdown)
                                           THEN @ ELSE FALSE]
  /\ UNCHANGED sent
  /\ PageFrame

\* The user edits the text in the viewer: nothing but the viewer's own
\* document changes.
EditInViewerAndPublish ==
  /\ ViewerShown /\ ~page.edited
  /\ Len(sent) < MaxFetches
  /\ page' = [page EXCEPT !.edited = TRUE]
  /\ Fetch(Request("POST", PrUrl, [path |-> page.selectedFile]))
  /\ PageFrame
EditInViewer ==
  /\ ViewerShown /\ ~page.edited
  /\ page' = [page EXCEPT !.edited = TRUE]
  /\ UNCHANGED <<sent, inflight>>
  /\ PageFrame

NextPage ==
  \/ Type
  \/ LoadFiles
  \/ LoadFilesAnswered
  \/ LoadFile
  \/ LoadFileAnswered
  \/ EditInViewer

SpecPage == InitPage /\ [][NextPage]_vars

(***************************************************************************)
(* The editor component (MarkdownEditor): state, renders, handlePublish    *)
(***************************************************************************)

MaxPosts == 2

\* The markdown an editor may be opened on.
EditorDocs ==
  { <<>>,
    <<"#", " ", "a">>,
    <<"a">>,
    <<" ", "a", " ", "\n">>,
    <<"a", "\n", "b">>,
    <<"-", " ", "a">>,
    <<"*", " ", " ", " ", "a">>,
    <<"#", " ", "a", "\n", "\n", "*", " ", " ", " ", "b", "\n", "*", " ", " ", " ", "c">> }

\* The paragraph an edit adds.
Typed == [tag |-> "p", text |-> << <<"x">> >>]

\* getCurrentMarkdown, for a value of currentHtml
GetCurrentMarkdown(currentHtml) ==
  IF currentHtml = <<>> THEN editor.initialMarkdown ELSE Turndown(currentHtml)

\* hasChanges, for a value of currentHtml
HasChanges(currentHtml) ==
  Trim(GetCurrentMarkdown(currentHtml)) # Trim(editor.initialMarkdown)

\* How the POST can end: success, a conflict with or without the upstream
\* state, another error response with or without an error text, a response
\* whose body is not JSON, or a rejection of fetch.
PostAnswers ==
  {[status |-> 200, body |-> [prUrl |-> [pull |-> 1], prNumber |-> 1]],
   [status |-> 409, body |-> [error |-> "File changed upstream",
                               upstreamSha |-> BlobSha(Upstream2),
                               upstreamMarkdown |-> Utf8Decode(Upstream2)]],
   [status |-> 409, body |-> [error |-> "File changed upstream"]],
   [status |-> 500, body |-> [error |-> "Failed to create pull request"]],
   [status |-> 404, body |-> [message |-> "Not Found"]],
   [status |-> 200, unparsable |-> TRUE],
   [status |-> 409, unparsable |-> TRUE],
   [status |-> 502, unparsable |-> TRUE],
   [rejected |-> TRUE]}

\* await fetch(...) or await response.json() rejects: the catch block runs.
Unread(a) == "rejected" \in DOMAIN a \/ "unparsable" \in DOMAIN a

\* response.ok
Ok(a) == a.status \in 200..299

InitEditor ==
  /\ InitProvider /\ InitPR /\ InitTreeIdle /\ InitFileIdle
  /\ page = <<>> /\ sent = <<>> /\ inflight = {}
  /\ \E md \in EditorDocs :
       editor = [initialMarkdown |-> md, doc |-> Marked(md), currentHtml |-> <<>>,
                 isPublishing |-> FALSE, publishError |-> "null",
                 rendered |-> [currentHtml |-> <<>>, isPublishing |-> FALSE],
                 mounted |-> FALSE, edited |-> FALSE, outcomes |-> <<>>,
                 answered |-> <<>>]

EditorFrame == UNCHANGED <<provider, prVars, treeVars, fileVars, page>>

\* The effects after the first render: currentHtml becomes the rendering of
\* initialMarkdown, if there is any.
Effects ==
  /\ ~editor.mounted
  /\ editor' = [editor EXCEPT !.mounted = TRUE,
                              !.currentHtml = IF editor.initialMarkdown # <<>>
                                              THEN Marked(editor.initialMarkdown) ELSE @]
  /\ UNCHANGED <<sent, inflight>>
  /\ EditorFrame

\* React renders the component again: the button and the handlers now
\* hold the current state.
Render ==
  /\ editor.mounted
  /\ editor.rendered # [currentHtml |-> editor.currentHtml,
                        isPublishing |-> editor.isPublishing]
  /\ editor' = [editor EXCEPT !.rendered = [currentHtml |-> editor.currentHtml,
                                            isPublishing |-> editor.isPublishing]]
  /\ UNCHANGED <<sent, inflight>>
  /\ EditorFrame

\* onUpdate: the user has typed a paragraph in the editor.
Edit ==
  /\ editor.mounted /\ ~editor.edited
  /\ LET doc == Append(editor.doc, Typed) IN
       editor' = [editor EXCEPT !.doc = doc, !.currentHtml = doc, !.edited = TRUE]
  /\ UNCHANGED <<sent, inflight>>
  /\ EditorFrame

\* A click on Publish reaches handlePublish as last rendered: the button is
\* not disabled, the guard passes, the request is sent.
HandlePublish ==
  /\ editor.mounted
  /\ Len(sent) < MaxPosts
  /\ ~(~HasChanges(editor.rendered.currentHtml) \/ editor.rendered.isPublishing)
  /\ editor' = [editor EXCEPT !.isPublishing = TRUE, !.publishError = "null"]
  /\ sent' = Append(sent, Request("POST", PrUrl,
       [owner |-> Owner, repo |-> Repo, path |-> PathAB,
        baseSha |-> BlobSha(Utf8Encode(editor.initialMarkdown)),
        markdown |-> GetCurrentMarkdown(editor.rendered.currentHtml)]))
  /\ inflight' = inflight \cup {Len(sent) + 1}
  /\ EditorFrame

\* handlePublish, from its await on: the answer, the callbacks, finally
HandlePublishAnsweredNoConflict ==
  /\ \E i \in inflight :
       /\ inflight' = inflight \ {i}
       /\ \E a \in PostAnswers :
            editor' =
              IF Unread(a)
                THEN [editor EXCEPT !.isPublishing = FALSE, !.answered = a,
                        !.publishError =
                          "Network error occurred while creating pull request"]
              ELSE IF ~Ok(a)
                THEN [editor EXCEPT !.isPublishing = FALSE, !.answered = a,
                        !.publishError =
                          IF "error" \in DOMAIN a.body THEN a.body.error
                          ELSE "Failed to create pull request"]
              ELSE [editor EXCEPT !.isPublishing = FALSE, !.answered = a,
                      !.publishError = "null",
                      !.outcomes = Append(@, [callback |-> "onPublishResult",
                                              data |-> a.body])]
  /\ UNCHANGED sent
  /\ EditorFrame
HandlePublishAnsweredNoFinally ==
  /\ \E i \in inflight :
       /\ inflight' = inflight \ {i}
       /\ \E a \in PostAnswers :
            editor' =
              IF Unread(a)
                THEN [editor EXCEPT !.answered = a, !.publishError =
                        "Network error occurred while creating pull request"]
              ELSE IF a.status = 409
                THEN [editor EXCEPT !.answered = a,
                        !.outcomes = Append(@, [callback |-> "onConflict", data |-> a.body]),
                        !.publishError =
                          "File changed on GitHub. Please reload or resolve conflicts."]
              ELSE IF ~Ok(a)
                THEN [editor EXCEPT !.answered = a, !.publishError =
                        IF "error" \in DOMAIN a.body THEN a.body.error
                        ELSE "Failed to create pull request"]
              ELSE [editor EXCEPT !.isPublishing = FALSE, !.answered = a,
                      !.publishError = "null",
                      !.outcomes = Append(@, [callback |-> "onPublishResult",
                                              data |-> a.body])]
  /\ UNCHANGED sent
  /\ EditorFrame
HandlePublishAnswered ==
  /\ \E i \in inflight :
       /\ inflight' = inflight \ {i}
       /\ \E a \in PostAnswers :
            editor' =
              IF Unread(a)
                THEN [editor EXCEPT !.isPublishing = FALSE, !.answered = a,
                        !.publishError =
                          "Network error occurred while creating pull request"]
              ELSE IF a.status = 409
                THEN [editor EXCEPT !.isPublishing = FALSE, !.answered = a,
                        !.outcomes = Append(@, [callback |-> "onConflict", data |-> a.body]),
                        !.publishError =
                          "File changed on GitHub. Please reload or resolve conflicts."]
              ELSE IF ~Ok(a)
                THEN [editor EXCEPT !.isPublishing = FALSE, !.answered = a,
                        !.publishError =
                          IF "error" \in DOMAIN a.body THEN a.body.error
                          ELSE "Failed to create pull request"]
              ELSE [editor EXCEPT !.isPublishing = FALSE, !.answered = a,
                      !.publishError = "null",
                      !.outcomes = Append(@, [callback |-> "onPublishResult",
                                              data |-> a.body])]
  /\ UNCHANGED sent
  /\ EditorFrame

NextEditor ==
  \/ Effects
  \/ Render
  \/ Edit
  \/ HandlePublish
  \/ HandlePublishAnswered

SpecEditor == InitEditor /\ [][NextEditor]_vars

\* Every request sent is answered or fails in the end, and React renders
\* again after a change of state.
EditorFairness ==
  /\ \A i \in 1..MaxPosts :
       WF_vars(i \in inflight /\ HandlePublishAnswered /\ i \notin inflight')
  /\ WF_vars(Render)

SpecEditorLive == SpecEditor /\ EditorFairness

(***************************************************************************)
(* Properties of POST /api/pr                                              *)
(***************************************************************************)

CallNames(r) == [i \in 1..Len(calls[r]) |-> calls[r][i].call]
Failed(r) == \E i \in 1..Len(calls[r]) : ~calls[r][i].ok
LastCall(r) == calls[r][Len(calls[r])]
HasFetched(r) == hist[r].fetched # <<>>
IsPrefix(a, b) == Len(a) <= Len(b) /\ SubSeq(b, 1, Len(a)) = a

\* C1: a request whose baseSha differs from the sha of the blob fetched for
\* its path on the resolved base branch is answered 409 with upstreamSha the
\* fetched sha and upstreamMarkdown the fetched bytes decoded, and it calls
\* none of getRef, createRef, createOrUpdateFileContents, pulls.create.
C1_MismatchIsConflict ==
  \A r \in Reqs :
    (HasFetched(r) /\ BlobSha(hist[r].fetched) # req[r].baseSha) =>
      /\ pc[r] = "done"
      /\ resp[r].status = 409
      /\ DOMAIN resp[r].body = {"error", "upstreamSha", "upstreamMarkdown"}
      /\ resp[r].body.upstreamSha = BlobSha(hist[r].fetched)
      /\ resp[r].body.upstreamMarkdown = Utf8Decode(hist[r].fetched)
      /\ \A i \in 1..Len(calls[r]) :
           calls[r][i].call \notin {GetRef, CreateRef, UpdateFile, CreatePull}

C1_Witness ==
  \E r \in Reqs :
    /\ HasFetched(r) /\ BlobSha(hist[r].fetched) # req[r].baseSha
    /\ resp[r].status = 409
    /\ hist[r].fetched = Upstream2

\* C2: the commit step of a request replaces the file on its branch only if
\* the blob there has the request's baseSha; otherwise the provider rejects
\* the commit, nothing is replaced and the request ends with an error.
C2_CommitStep(r) ==
  (pc[r] = UpdateFile /\ pc'[r] # UpdateFile) =>
    LET blob == TreeOf(refs[newBranchName[r]])[req[r].path] IN
      /\ (refs' # refs) => (BlobSha(blob) = req[r].baseSha /\ hist'[r].replaced = blob)
      /\ (BlobSha(blob) # req[r].baseSha) =>
           /\ refs' = refs /\ pc'[r] = "done"
           /\ calls'[r] = Append(calls[r], [call |-> UpdateFile, ok |-> FALSE])
           /\ resp'[r].status \in {401, 403, 404, 409, 429, 500}

C2_NoLostUpdate == [][\A r \in Reqs : C2_CommitStep(r)]_vars

\* A commit was rejected: the base branch moved between the sha check and
\* getRef, so the new branch holds a blob the editor never saw.
C2_Witness ==
  \E r \in Reqs :
    /\ pc[r] = "done" /\ hist[r].createdRef
    /\ LastCall(r) = [call |-> UpdateFile, ok |-> FALSE]
    /\ BlobSha(TreeOf(refs[newBranchName[r]])[req[r].path]) # req[r].baseSha
    /\ hist[r].matched

\* C3 as the spec states it: a publish whose baseSha matched the upstream sha
\* succeeds with the pull request's URL and number.
C3_MatchedSucceeds ==
  \A r \in Reqs :
    (pc[r] = "done" /\ hist[r].matched) =>
      /\ resp[r].status = 200
      /\ resp[r].body = [prUrl |-> hist[r].prData.html_url,
                         prNumber |-> hist[r].prData.number]

\* C3, amended: a publish whose baseSha matched and none of whose provider
\* calls failed succeeds, and every success response carries exactly the
\* html_url and number pulls.create returned to this request, for a pull
\* request from the request's branch.
C3_MatchedSucceedsUnlessACallFails ==
  \A r \in Reqs :
    /\ (pc[r] = "done" /\ hist[r].matched /\ ~Failed(r)) => resp[r].status = 200
    /\ (resp[r].status = 200) =>
         /\ hist[r].matched /\ ~Failed(r)
         /\ hist[r].prData.number \in 1..Len(pulls)
         /\ pulls[hist[r].prData.number].head = newBranchName[r]
         /\ resp[r].body = [prUrl |-> hist[r].prData.html_url,
                            prNumber |-> hist[r].prData.number]
         /\ \A q \in Reqs \ {r} : resp[q].status = 200 => resp[q].body # resp[r].body

C3_Witness ==
  \E r \in Reqs : resp[r].status = 200 /\ resp[r].body.prNumber = 2

\* C4: every 409 response carries upstreamSha and upstreamMarkdown.
C4_ConflictCarriesUpstream ==
  \A r \in Reqs :
    resp[r].status = 409 =>
      {"upstreamSha", "upstreamMarkdown"} \subseteq DOMAIN resp[r].body

\* C5: after a call of a request fails no further call is made, delete-ref
\* included; if the failure came after createRef succeeded, the branch exists
\* and no pull request has it as head.
C5_AbortWithoutRollback ==
  \A r \in Reqs :
    /\ \A i \in 1..Len(calls[r]) :
         /\ calls[r][i].call # DeleteRef
         /\ ~calls[r][i].ok => (i = Len(calls[r]) /\ pc[r] = "done")
    /\ (Failed(r) /\ hist[r].createdRef) =>
         /\ newBranchName[r] \in DOMAIN refs
         /\ \A n \in 1..Len(pulls) : pulls[n].head # newBranchName[r]
         /\ resp[r].status \notin {0, 200}

C5_Witness ==
  \E r \in Reqs :
    /\ Failed(r) /\ hist[r].createdRef /\ LastCall(r).call = CreatePull
    /\ newBranchName[r] \in DOMAIN refs

\* C6: the response to a thrown error follows from the error's status: 401
\* gives 401; 403 gives 429 if the x-ratelimit-remaining header is '0' or the
\* message contains 'rate limit', else 403; 404 gives 404; 409 gives 409;
\* anything else gives 500.
C6_ErrorMapping ==
  thrown.r # 0 =>
    LET e == thrown.e
        st == IF "status" \in DOMAIN e THEN e.status ELSE 0
        limited == \/ ("remaining" \in DOMAIN e /\ e.remaining = <<"0">>)
                   \/ ("message" \in DOMAIN e /\ Includes(e.message, RateLimitWords))
    IN  /\ pc[thrown.r] = "done"
        /\ resp[thrown.r].status =
             (CASE st = 401 -> 401
                [] st = 403 -> IF limited THEN 429 ELSE 403
                [] st = 404 -> 404
                [] st = 409 -> 409
                [] OTHER -> 500)

C6_Witness ==
  /\ thrown.r # 0
  /\ "status" \in DOMAIN thrown.e /\ thrown.e.status = 403
  /\ "remaining" \in DOMAIN thrown.e /\ thrown.e.remaining # <<"0">>
  /\ "message" \in DOMAIN thrown.e /\ Includes(thrown.e.message, RateLimitWords)
  /\ resp[thrown.r].status = 429
  /\ LastCall(thrown.r).call = CreatePull

\* C7: the calls of a request are a prefix of repos.get (only without a
\* baseBranch), getContent, getRef, createRef, createOrUpdateFileContents,
\* pulls.create; none is repeated, and each follows a call that succeeded.
ExpectedCalls(r) ==
  (IF req[r].baseBranch = <<>> THEN <<GetRepo>> ELSE <<>>)
  \o <<GetContent, GetRef, CreateRef, UpdateFile, CreatePull>>

C7_CallsInOrder ==
  \A r \in Reqs :
    /\ IsPrefix(CallNames(r), ExpectedCalls(r))
    /\ \A i \in 1..Len(calls[r]) : i < Len(calls[r]) => calls[r][i].ok

C7_Witness ==
  \E r \in Reqs :
    /\ req[r].baseBranch = Dev
    /\ CallNames(r) = <<GetContent, GetRef, CreateRef, UpdateFile, CreatePull>>
    /\ resp[r].status = 200

(***************************************************************************)
(* Properties of GET /api/repo/tree and GET /api/repo/file                 *)
(***************************************************************************)

HasSuffix(p, suffix) ==
  /\ Len(p) >= Len(suffix)
  /\ \A k \in 1..Len(suffix) : p[Len(p) - Len(suffix) + k] = suffix[k]

\* The paths of a tree's blobs that end in .md or .markdown.
MarkdownBlobPaths(t) ==
  {t[i].path : i \in {j \in 1..Len(t) :
      /\ t[j].type = "blob"
      /\ \/ HasSuffix(t[j].path, <<".", "m", "d">>)
         \/ HasSuffix(t[j].path, <<".", "m", "a", "r", "k", "d", "o", "w", "n">>)}}

\* a sorts before b: at the first place they differ a has the smaller code
\* unit, or a ends there.
Before(a, b) ==
  \E k \in 1..Len(b) :
    /\ k <= Len(a) + 1
    /\ \A i \in 1..(k - 1) : a[i] = b[i]
    /\ (k = Len(a) + 1 \/ CodeUnit(a[k]) < CodeUnit(b[k]))

\* C8: the files of a listing are exactly the paths of the tree's blobs that
\* end in .md or .markdown, in ascending order, none of them twice.
C8_FilesFilteredSorted ==
  tresp.status = 200 =>
    LET files == tresp.body.files IN
      /\ {files[i] : i \in 1..Len(files)} = MarkdownBlobPaths(listing.trees[tsha])
      /\ \A i, j \in 1..Len(files) : i < j => Before(files[i], files[j])

\* A listing whose tree was out of order and held an entry to leave out.
C8_Witness ==
  /\ tresp.status = 200
  /\ Len(tresp.body.files) = 2
  /\ Len(listing.trees[tsha]) = 3
  /\ tresp.body.files # FilterPaths(listing.trees[tsha])

\* C9: without a branch parameter the response names the default branch and
\* lists the tree at its head, after repos.get; with one, the response names
\* it and lists the tree at its head, and repos.get is never called.
C9_BranchResolved ==
  /\ (treq.branch # <<>>) =>
       \A i \in 1..Len(tcalls) : tcalls[i].call # GetRepo
  /\ (treq.branch = <<>> /\ tcalls # <<>>) => tcalls[1].call = GetRepo
  /\ tresp.status = 200 =>
       LET b == IF treq.branch = <<>> THEN DefaultBranch ELSE treq.branch
           files == tresp.body.files
       IN  /\ tresp.body.branch = b
           /\ {files[i] : i \in 1..Len(files)}
                = MarkdownBlobPaths(listing.trees[listing.heads[b]])

C9_Witness ==
  /\ tresp.status = 200 /\ treq.branch = <<>>
  /\ tresp.body.branch = Main /\ tresp.body.files # <<>>

\* C10: a fetch of a path for which the provider answers a directory listing
\* or an entry that is not a file is answered 400 'Not a file', never with
\* markdown and sha.
C10_NotAFileIsAnError ==
  (fpc = "done" /\ fcalls = <<[call |-> GetContent, ok |-> TRUE]>>
     /\ freq.path \notin FilePaths) =>
    fresp = Json(400, [error |-> "Not a file"])

C10_Witness ==
  /\ fpc = "done" /\ fcalls = <<[call |-> GetContent, ok |-> TRUE]>>
  /\ freq.path = PathLink
  /\ fresp.status = 400

(***************************************************************************)
(* Properties of the three routes together                                 *)
(***************************************************************************)

\* C11: a request with a required field absent or empty is answered 400 and
\* no provider call is made for it: owner, repo, path, baseSha, markdown of a
\* publish (a publish whose body holds no field at all included); owner,
\* repo of a listing; owner, repo, path of a fetch.
C11_MissingFieldIsBadRequest ==
  /\ (pc[1] # "idle" /\ \E f \in {"owner", "repo", "path", "baseSha", "markdown"} :
                           req[1][f] = <<>>)
       => (pc[1] = "done" /\ resp[1].status = 400 /\ calls[1] = <<>>)
  /\ (tpc \notin {"off", "idle"} /\ \E f \in {"owner", "repo"} : treq[f] = <<>>)
       => (tpc = "done" /\ tresp.status = 400 /\ tcalls = <<>>)
  /\ (fpc \notin {"off", "idle"} /\ \E f \in {"owner", "repo", "path"} : freq[f] = <<>>)
       => (fpc = "done" /\ fresp.status = 400 /\ fcalls = <<>>)

\* The status of a thrown error (0 for none) and its rate-limit signal, as the
\* claims about error responses state them.
StatusOf(e) == IF "status" \in DOMAIN e THEN e.status ELSE 0
Throttled(e) ==
  \/ ("remaining" \in DOMAIN e /\ e.remaining = <<"0">>)
  \/ ("message" \in DOMAIN e /\ Includes(e.message, RateLimitWords))

\* C12: a listing fails with NotFound on a provider 404, with RateLimited on
\* a throttling 403, and with Unauthorized on a 401 or a 403 that is not
\* throttling; the three results differ from one another.
C12_TreeErrorsDistinguished ==
  (tpc = "done" /\ thrown.r # 0) =>
    LET e == thrown.e
        limited == CatchResponseTree([status |-> 403, remaining |-> <<"0">>])
    IN  /\ StatusOf(e) = 404 => tresp.status = 404
        /\ (StatusOf(e) = 403 /\ Throttled(e)) => tresp.status \in {403, 429}
        /\ (StatusOf(e) = 401 \/ (StatusOf(e) = 403 /\ ~Throttled(e))) =>
             (tresp.status \in {401, 403} /\ tresp # limited)

\* C13: a fetch fails with NotFound (404) on a provider 404, with
\* Unauthorized on a 401 (as 401) and on a 403 without a rate-limit signal,
\* with RateLimited on a 403 with the signal, and with 500 on anything else;
\* the response to a failure holds neither markdown nor sha.
C13_FileErrorMapping ==
  (fpc = "done" /\ thrown.r # 0) =>
    LET e == thrown.e
        st == StatusOf(e)
        limited == CatchResponseOf(fversion, [status |-> 403, remaining |-> <<"0">>])
    IN  /\ st = 404 => fresp.status = 404
        /\ st = 401 => fresp.status = 401
        /\ (st = 403 /\ Throttled(e)) => (fresp.status \in {403, 429} /\ fresp = limited)
        /\ (st = 403 /\ ~Throttled(e)) => (fresp.status = 403 /\ fresp # limited)
        /\ st \notin {401, 403, 404} => fresp.status = 500
        /\ {"markdown", "sha"} \cap DOMAIN fresp.body = {}

(***************************************************************************)
(* Properties of createBranchSlug                                          *)
(***************************************************************************)

IsLowerAlnumDash(c) ==
  LET u == CodeUnit(c) IN (u >= 97 /\ u <= 122) \/ (u >= 48 /\ u <= 57) \/ c = "-"

IsUpper(c) == CodeUnit(c) >= 65 /\ CodeUnit(c) <= 90

\* Character by character: '/' becomes '-', a capital its small letter,
\* a-z 0-9 '-' stay, all else goes; then the first 40 characters.
SlugOf(path) ==
  LET kept == SelectSeq(path, LAMBDA c : c = "/" \/ IsUpper(c) \/ IsLowerAlnumDash(c))
      mapped == [i \in 1..Len(kept) |->
                   IF kept[i] = "/" THEN "-"
                   ELSE IF IsUpper(kept[i]) THEN FromCharCode(CodeUnit(kept[i]) + 32)
                   ELSE kept[i]]
  IN  SubSeq(mapped, 1, IF Len(mapped) > 40 THEN 40 ELSE Len(mapped))

DigitValue(c) == CodeUnit(c) - 48

\* C14: the branch name is 'docs/', the slug, '-', and the UTC instant as
\* YYYYMMDD-HHMMSS; the slug is the path with '/' as '-', the characters
\* outside [a-zA-Z0-9-] removed, in lower case, cut to 40 characters; it
\* matches ^[a-z0-9-]{1,40}$ whenever the path has a character of
\* [a-zA-Z0-9/-], as 'docs/Getting Started.md' has.
C14_BranchNameShape ==
  pc[1] = "named" =>
    LET name == newBranchName[1]
        path == req[1].path
        n == Len(name)
        slug == SubSeq(name, 6, n - 16)
        stamp == SubSeq(name, n - 14, n)
        secs == ClockStart.h * 3600 + ClockStart.m * 60 + ClockStart.s
                  + ((now * TickMs) \div 1000)
        two(i) == 10 * DigitValue(stamp[i]) + DigitValue(stamp[i + 1])
    IN  /\ n >= 21
        /\ SubSeq(name, 1, 5) = <<"d", "o", "c", "s", "/">>
        /\ name[n - 15] = "-"
        /\ \A i \in 1..15 : IF i = 9 THEN stamp[i] = "-"
                            ELSE DigitValue(stamp[i]) \in 0..9
        /\ SubSeq(stamp, 1, 8) = SelectSeq(ClockStart.date, LAMBDA c : c # "-")
        /\ two(10) = (secs \div 3600) % 24
        /\ two(12) = (secs \div 60) % 60
        /\ two(14) = secs % 60
        /\ slug = SlugOf(path)
        /\ Len(slug) <= 40
        /\ \A i \in 1..Len(slug) : IsLowerAlnumDash(slug[i])
        /\ (\E i \in 1..Len(path) :
              path[i] = "/" \/ IsUpper(path[i]) \/ IsLowerAlnumDash(path[i]))
             => Len(slug) >= 1
        /\ path = GettingStarted =>
             slug = <<"d", "o", "c", "s", "-", "g", "e", "t", "t", "i", "n", "g",
                      "s", "t", "a", "r", "t", "e", "d", "m", "d">>

\* A long path with characters to drop has been named: the slug is cut at 40
\* characters, after the minute has turned.
C14_Witness ==
  /\ pc[1] = "named"
  /\ Len(req[1].path) = SlugMax + 16
  /\ Len(newBranchName[1]) = 5 + 40 + 16
  /\ now = MaxClock

\* The base branch a request asks for: the one it names, or the default.
BaseOf(r) == IF req[r].baseBranch = <<>> THEN DefaultBranch ELSE req[r].baseBranch

\* What a step of request r that calls the provider may write.
C17_PublishStep(r) ==
  (pc[r] \in CallSteps /\ pc'[r] # pc[r]) =>
    /\ DOMAIN refs \subseteq DOMAIN refs'
    /\ \A b \in BaseBranchNames : refs'[b] = refs[b]
    /\ \A b \in DOMAIN refs' \ DOMAIN refs :
         /\ pc[r] = CreateRef /\ b = newBranchName[r]
         /\ refs'[b] = baseCommitSha[r]
         /\ IsPrefix(refs'[b], refs[BaseOf(r)])
    /\ \A b \in DOMAIN refs :
         refs'[b] # refs[b] =>
           /\ pc[r] = UpdateFile /\ b = newBranchName[r] /\ hist[r].createdRef
           /\ refs'[b] = Append(refs[b], [TreeOf(refs[b]) EXCEPT
                                             ![req[r].path] = Utf8Encode(req[r].markdown)])
    /\ pulls' # pulls =>
         /\ pc[r] = CreatePull /\ hist[r].createdRef
         /\ Len(pulls') = Len(pulls) + 1
         /\ SubSeq(pulls', 1, Len(pulls)) = pulls
         /\ pulls'[Len(pulls')].head = newBranchName[r]
         /\ pulls'[Len(pulls')].base = BaseOf(r)

\* C17: a publish writes only to the branch it created. The new ref is
\* created at the commit getRef gave as the head of the base branch (the
\* branch named in the request, the default branch when none is named); the
\* one commit is appended to that new branch and changes the request's path
\* only; the pull request has the new branch as head and the base branch as
\* base; no step of a publish changes the ref of a base branch, and so no
\* file on it.
C17_PublishWritesOwnBranch == [][\A r \in Reqs : C17_PublishStep(r)]_vars

\* Two publishes succeeded, one on the default branch (no baseBranch given)
\* and one on the branch it named; each branch created holds one commit more
\* than the base head it was created at.
C17_Witness ==
  /\ \A r \in Reqs : pc[r] = "done" /\ resp[r].status = 200
  /\ req[1].baseBranch = <<>> /\ req[2].baseBranch = Dev
  /\ Len(pulls) = 2
  /\ \A r \in Reqs : Len(refs[newBranchName[r]]) = Len(baseCommitSha[r]) + 1

\* Two ticks of the clock fall in the same second.
SameSecond(t1, t2) == (t1 * TickMs) \div 1000 = (t2 * TickMs) \div 1000

\* Paths that share a slug: the two file paths, and paths whose slugs agree
\* on their first SlugMax characters.
CollidingPaths ==
  FilePaths \cup {Cycle(<<"a", "B", "-">>, n) : n \in SlugMax..(SlugMax + 2)}

\* Paths with one slug, at instants in one second, get one branch name.
SameSlugSameSecondSameName ==
  \A p1 \in CollidingPaths, p2 \in CollidingPaths :
    \A t1 \in 0..MaxClock, t2 \in 0..MaxClock :
      (Slug(p1) = Slug(p2) /\ SameSecond(t1, t2)) =>
        createBranchSlug(p1, t1) = createBranchSlug(p2, t2)

\* The branch names a path gets, by the tick of the clock.
BranchNameAt == [p \in FilePaths \cup {PathDir}, t \in 0..MaxClock |-> createBranchSlug(p, t)]

\* The pull requests opened from a branch.
PullsFrom(name) == {i \in 1..Len(pulls) : pulls[i].head = name}

\* C18: branch names are not unique. Requests whose paths have the same slug
\* and whose instants fall in the same second make the same branch name
\* ('a/b.md' and 'a-b.md'; paths alike in the first 40 characters of the
\* slug). Of two requests with one branch name at most one creates the ref;
\* the other does not commit or open a pull request, and ends with an error
\* response: the branch holds at most the one commit of the request that
\* created it, and at most one pull request comes from it.
C18_CollidingNamesOneWinner ==
  /\ SameSlugSameSecondSameName
  /\ \A r \in Reqs :
       newBranchName[r] # <<>> =>
         \E t \in 0..now : newBranchName[r] = BranchNameAt[req[r].path, t]
  /\ \A r1 \in Reqs, r2 \in Reqs :
       (r1 # r2 /\ newBranchName[r1] # <<>> /\ newBranchName[r1] = newBranchName[r2]) =>
         /\ ~(hist[r1].createdRef /\ hist[r2].createdRef)
         /\ hist[r1].createdRef =>
              /\ pc[r2] \in {CreateRef, "done"}
              /\ \A i \in 1..Len(calls[r2]) :
                   /\ calls[r2][i].call \notin {UpdateFile, CreatePull}
                   /\ calls[r2][i].call = CreateRef => ~calls[r2][i].ok
              /\ pc[r2] = "done" => resp[r2].status >= 400
              /\ Len(refs[newBranchName[r1]]) <= Len(baseCommitSha[r1]) + 1
              /\ PullsFrom(newBranchName[r1]) \subseteq {hist[r1].prData.number}

\* The race: 'a/b.md' and 'a-b.md' published within one second. The first
\* request created docs/a-bmd-<timestamp> and opened its pull request; the
\* createRef of the second was refused by the provider (422) and the request
\* answered 500.
C18_Witness ==
  /\ req[1].path = PathAB /\ req[2].path = PathA_B
  /\ newBranchName[1] = newBranchName[2] /\ newBranchName[1] # <<>>
  /\ hist[1].createdRef /\ resp[1].status = 200
  /\ thrown = Thrown(2, [status |-> 422])
  /\ resp[2].status = 500
  /\ PullsFrom(newBranchName[1]) = {hist[1].prData.number}

(***************************************************************************)
(* Properties of the page                                                  *)
(***************************************************************************)

\* C15: whatever the user does on the page (typing, loading files, selecting
\* a file, editing in the viewer), every request sent is a GET of
\* /api/repo/tree or of /api/repo/file: nothing is sent that creates a ref,
\* a commit or a pull request.
C15_PageOnlyReads ==
  \A i \in 1..Len(sent) :
    sent[i].method = "GET" /\ sent[i].url \in {"/api/repo/tree", "/api/repo/file"}

\* Files were loaded, a file was selected, and its text edited in the viewer.
C15_Witness ==
  /\ page.edited
  /\ Len(sent) = 2 /\ sent[1].url = "/api/repo/tree" /\ sent[2].url = "/api/repo/file"
  /\ inflight = {}

\* C20: whenever the viewer shows content, a file is selected and the content
\* is the rendering of that file: an answer that comes late, for a file
\* selected before, never shows as the content of the selection (or of no
\* selection, after files were loaded again).
C20_ContentIsOfSelection ==
  (~page.loadingFile /\ page.fileContent # <<>>) =>
    /\ page.selectedFile # <<>>
    /\ page.fileContent = Marked(MarkdownAt(page.selectedFile))

(***************************************************************************)
(* Properties of the editor component                                      *)
(***************************************************************************)

\* C16: markdown rendered to HTML and turned back, with no edit between,
\* compares equal to the original, so that an editor nobody typed in has no
\* changes and its Publish sends nothing.
C16_NoEditNoChanges ==
  (editor.mounted /\ ~editor.edited) =>
    /\ Trim(GetCurrentMarkdown(editor.currentHtml)) = Trim(editor.initialMarkdown)
    /\ sent = <<>>

\* C19: at most one POST /api/pr of an editor is unanswered at any time,
\* wherever the clicks on Publish fall between the renders.
C19_OnePublishInFlight ==
  Cardinality({i \in inflight : sent[i].url = "/api/pr"}) <= 1

\* C21: every publish that was started ends, whatever its outcome, with
\* isPublishing false, and the button rendered as publishing is rendered
\* again as not publishing: a request that finished never leaves the button
\* disabled.
C21_PublishingEnds ==
  /\ \A i \in 1..MaxPosts :
       (i \in inflight) ~> (i \notin inflight /\ ~editor.isPublishing)
  /\ editor.rendered.isPublishing ~> ~editor.rendered.isPublishing

\* A publish ended on a response whose body could not be read, and the
\* component rendered again: nothing is in flight, nothing is publishing.
C21_Witness ==
  /\ Len(sent) >= 1 /\ inflight = {}
  /\ "unparsable" \in DOMAIN editor.answered
  /\ ~editor.isPublishing /\ ~editor.rendered.isPublishing
  /\ editor.publishError = "Network error occurred while creating pull request"

\* A step that ends a publish: an answer, or a failure, was received.
PublishCompletes == inflight' # inflight /\ inflight' \subseteq inflight

\* The step called the callback, once, with the body of the answer.
CalledBack(callback, a) ==
  /\ Len(editor'.outcomes) = Len(editor.outcomes) + 1
  /\ SubSeq(editor'.outcomes, 1, Len(editor.outcomes)) = editor.outcomes
  /\ editor'.outcomes[Len(editor'.outcomes)].callback = callback
  /\ "body" \in DOMAIN a
  /\ editor'.outcomes[Len(editor'.outcomes)].data = a.body

\* C22 as stated: a publish that completes reports one outcome by the status
\* of the response. On 409 onConflict is called with the body and
\* publishError is set; on another status that is not OK no callback is
\* called and publishError is set; on an OK status onPublishResult is called
\* once with the body and publishError is null.
C22_OutcomeByStatus ==
  [][PublishCompletes =>
       LET a == editor'.answered IN
         "status" \in DOMAIN a =>
           IF a.status = 409
             THEN CalledBack("onConflict", a) /\ editor'.publishError # "null"
           ELSE IF ~Ok(a)
             THEN editor'.outcomes = editor.outcomes /\ editor'.publishError # "null"
           ELSE CalledBack("onPublishResult", a) /\ editor'.publishError = "null"]_vars

\* C22, amended: the outcome goes by the status when the body of the
\* response was read as JSON. When fetch rejects, or the body of a response
\* of any status (409 and 200 included) is not JSON, no callback is called
\* and publishError is the network error text. No other step calls a
\* callback.
C22_OutcomeByStatusOfReadResponse ==
  [][IF PublishCompletes
       THEN LET a == editor'.answered IN
              IF Unread(a)
                THEN /\ editor'.outcomes = editor.outcomes
                     /\ editor'.publishError =
                          "Network error occurred while creating pull request"
              ELSE IF a.status = 409
                THEN CalledBack("onConflict", a) /\ editor'.publishError # "null"
              ELSE IF ~Ok(a)
                THEN editor'.outcomes = editor.outcomes /\ editor'.publishError # "null"
              ELSE CalledBack("onPublishResult", a) /\ editor'.publishError = "null"
       ELSE editor'.outcomes = editor.outcomes]_vars

\* Two publishes completed: the first was answered 409 and reported to
\* onConflict, the second succeeded and was reported to onPublishResult.
C22_Witness ==
  /\ inflight = {} /\ Len(sent) = 2
  /\ Len(editor.outcomes) = 2
  /\ editor.outcomes[1].callback = "onConflict"
  /\ editor.outcomes[2].callback = "onPublishResult"
  /\ editor.outcomes[2].data = [prUrl |-> [pull |-> 1], prNumber |-> 1]
  /\ editor.publishError = "null"

====
